---- MODULE Spec2Model ----
(***************************************************************************)
(* Grundsteuer savings calculator (grundsteuer_rechner.py) and its web     *)
(* form (streamlit_app.py).                                                *)
(*                                                                         *)
(* A Python Decimal is the record [sign, int, exp]: sign is 0 or 1, int is *)
(* the coefficient as a sequence of decimal digits, most significant       *)
(* first and without leading zeros (<<0>> for zero), exp is the exponent;  *)
(* the value is (-1)^sign * int * 10^exp.  Coefficients are digit          *)
(* sequences because the working precision is 28 digits.  A Python str is  *)
(* a sequence of one-character strings.                                    *)
(***************************************************************************)
EXTENDS Integers, Sequences, FiniteSets, TLC

\* getcontext().prec = 28
Prec == 28

------------------------------------------------------------------------------
\* Natural numbers as digit sequences (the coefficient arithmetic of Decimal)

\* '0' * n (<<>> \o [...] is the sequence [...] as a tuple)
Zeros(n) == <<>> \o [i \in 1..(IF n > 0 THEN n ELSE 0) |-> 0]

\* str(int(a)): a without its leading zeros
StripZeros(a) ==
    LET nz == {i \in 1..Len(a) : a[i] # 0}
    IN  IF nz = {} THEN <<0>>
        ELSE SubSeq(a, CHOOSE i \in nz : \A j \in nz : i <= j, Len(a))

AllZeros(a) == \A i \in 1..Len(a) : a[i] = 0

PadLeft(a, n) == Zeros(n - Len(a)) \o a

\* Bind(v, F) is F(v) with v evaluated once: "x = v", then the rest F
Bind(v, F(_)) == F(v)

\* a + b
NatAdd(a, b) ==
    LET \* the digits of the column sums s, the carry into each position found by
        \* lookahead
        AddSums(s) ==
            <<>> \o [i \in 1..Len(s) |->
                (s[i] + (IF \E j \in (i + 1)..Len(s) :
                                /\ s[j] >= 10
                                /\ \A k \in (i + 1)..(j - 1) : s[k] = 9
                         THEN 1 ELSE 0)) % 10]
        AddAligned(x, y) == StripZeros(AddSums(<<>> \o [i \in 1..Len(x) |-> x[i] + y[i]]))
    IN  AddAligned(PadLeft(a, (IF Len(a) > Len(b) THEN Len(a) ELSE Len(b)) + 1),
                   PadLeft(b, (IF Len(a) > Len(b) THEN Len(a) ELSE Len(b)) + 1))

\* a - b for a >= b
NatSub(a, b) ==
    LET \* the digits of the column differences s, the borrow from each position
        \* found by lookahead
        SubDiffs(s) ==
            <<>> \o [i \in 1..Len(s) |->
                (s[i] - (IF \E j \in (i + 1)..Len(s) :
                                /\ s[j] < 0
                                /\ \A k \in (i + 1)..(j - 1) : s[k] = 0
                         THEN 1 ELSE 0) + 10) % 10]
        SubAligned(x, y) == StripZeros(SubDiffs(<<>> \o [i \in 1..Len(x) |-> x[i] - y[i]]))
    IN  SubAligned(a, PadLeft(b, Len(a)))

\* -1, 0, 1 as a < b, a = b, a > b (both without leading zeros)
NatCmp(a, b) ==
    IF Len(a) < Len(b) THEN -1
    ELSE IF Len(a) > Len(b) THEN 1
    ELSE LET df == {i \in 1..Len(a) : a[i] # b[i]}
         IN  IF df = {} THEN 0
             ELSE LET i == CHOOSE i \in df : \A j \in df : i <= j
                  IN  IF a[i] < b[i] THEN -1 ELSE 1

\* Products and quotients work on limbs of 4 digits (base 10000), least
\* significant limb first

Pow10 == <<1, 10, 100, 1000>>

\* the digit of a at decimal position p (0 is the last digit)
DigitAt(a, p) == IF p < Len(a) THEN a[Len(a) - p] ELSE 0

ToLimbs(a) ==
    <<>> \o [m \in 1..((Len(a) + 4 - 1) \div 4) |->
        DigitAt(a, 4 * (m - 1)) + 10 * DigitAt(a, 4 * (m - 1) + 1)
        + 100 * DigitAt(a, 4 * (m - 1) + 2)
        + 1000 * DigitAt(a, 4 * (m - 1) + 3)]

\* the digits of the limbs l
FromLimbs(l) ==
    LET \* the digit at decimal position p of the limbs l
        LimbDigit(p) == (l[p \div 4 + 1] \div Pow10[(p % 4) + 1]) % 10
    IN  StripZeros(<<>> \o [i \in 1..(4 * Len(l)) |-> LimbDigit(4 * Len(l) - i)])

\* the sum of x[i] * y[k + 1 - i] over the limbs i..Len(x) of x
RECURSIVE ColSum(_, _, _, _)
ColSum(x, y, k, i) ==
    IF i > Len(x) THEN 0
    ELSE (IF k + 1 - i >= 1 /\ k + 1 - i <= Len(y) THEN x[i] * y[k + 1 - i] ELSE 0)
         + ColSum(x, y, k, i + 1)

\* the limbs k.. of the column sums cols, c carried in
RECURSIVE Carry(_, _, _)
Carry(cols, k, c) ==
    IF k > Len(cols) THEN <<>>
    ELSE <<(cols[k] + c) % 10000>> \o Carry(cols, k + 1, (cols[k] + c) \div 10000)

\* a * b
NatMul(a, b) ==
    LET MulLimbs(x, y) ==
            FromLimbs(Carry(<<>> \o [k \in 1..(Len(x) + Len(y)) |-> ColSum(x, y, k, 1)], 1, 0))
    IN  MulLimbs(ToLimbs(a), ToLimbs(b))

\* the quotient limbs m, m-1, .. 1 of l by k, most significant first, then
\* the remainder, r carried in
RECURSIVE DivRec(_, _, _, _)
DivRec(l, k, m, r) ==
    IF m = 0 THEN <<r>>
    ELSE <<(r * 10000 + l[m]) \div k>>
         \o DivRec(l, k, m - 1, (r * 10000 + l[m]) % k)

\* divmod(a, k) for a divisor k of at most 5 digits: <<quotient, remainder>>
NatDivMod(a, k) ==
    LET DivResult(r, n) ==
            <<FromLimbs(<<>> \o [m \in 1..n |-> r[n + 1 - m]]), r[n + 1]>>
        DivLimbs(l) == DivResult(DivRec(l, k, Len(l), 0), Len(l))
    IN  DivLimbs(ToLimbs(a))

\* Long division by a divisor b of any length, digit by digit

\* b * 0, b * 1, .. b * 9
Multiples(b) ==
    <<<<0>>, b, NatMul(b, <<2>>), NatMul(b, <<3>>), NatMul(b, <<4>>),
      NatMul(b, <<5>>), NatMul(b, <<6>>), NatMul(b, <<7>>), NatMul(b, <<8>>),
      NatMul(b, <<9>>)>>

\* the largest k in 0..9 with b * k <= r, mults the multiples of b
QuotDigit(mults, r) == Cardinality({k \in 1..9 : NatCmp(mults[k + 1], r) <= 0})

\* the quotient digits i.. of a by b, then 1 when a remainder is left and 0
\* when none is, r carried in
RECURSIVE LongDiv(_, _, _, _)
LongDiv(a, mults, i, r) ==
    LET LongDivStep(rest, k) ==
            <<k>> \o LongDiv(a, mults, i + 1, NatSub(rest, mults[k + 1]))
        LongDivDigit(rest) ==
            Bind(QuotDigit(mults, rest), LAMBDA k : LongDivStep(rest, k))
    IN  IF i > Len(a) THEN <<IF r = <<0>> THEN 0 ELSE 1>>
        ELSE Bind(StripZeros(r \o <<a[i]>>),
                  LAMBDA rest : LongDivDigit(rest))

\* divmod(a, b): <<quotient, whether a remainder is left>>
NatDivModLong(a, b) ==
    LET LongDivResult(res) ==
            <<StripZeros(<<0>> \o SubSeq(res, 1, Len(res) - 1)), res[Len(res)]>>
    IN  IF Len(a) < Len(b) THEN <<<<0>>, IF a = <<0>> THEN 0 ELSE 1>>
        ELSE Bind(Multiples(b), LAMBDA mults :
             Bind(LongDiv(a, mults, Len(b),
                          StripZeros(<<0>> \o SubSeq(a, 1, Len(b) - 1))),
                  LAMBDA res : LongDivResult(res)))

\* int(coefficient) for coefficients below 2^31
RECURSIVE NatVal(_)
NatVal(a) == IF Len(a) = 0 THEN 0
             ELSE NatVal(SubSeq(a, 1, Len(a) - 1)) * 10 + a[Len(a)]

RECURSIVE NatDigits(_)
NatDigits(n) == IF n < 10 THEN <<n>> ELSE Append(NatDigits(n \div 10), n % 10)

------------------------------------------------------------------------------
\* decimal.Decimal under the program's context: prec = 28 and the defaults
\* rounding = ROUND_HALF_EVEN, Emax = 999999, Emin = -999999, clamp = 0,
\* traps = InvalidOperation, DivisionByZero, Overflow.
\*
\* A finite Decimal is [sign, int, exp].  Infinity, NaN and sNaN are
\* [sign, special, payload] with special "F", "n", "N" and the payload as
\* digits, as Decimal.as_tuple() gives them.  An expression that raises has
\* the value [raises |-> the exception's class]; an operation on an operand
\* that raised raises the same.

Emax == 999999
Emin == -999999
Etiny == Emin - Prec + 1
Etop == Emax - Prec + 1

Dec(sign, int, exp) == [sign |-> sign, int |-> int, exp |-> exp]

Special(sign, special, payload) ==
    [sign |-> sign, special |-> special, payload |-> payload]

Raise(class) == [raises |-> class]

InvalidOperation == Raise("InvalidOperation")
Overflow == Raise("Overflow")
DivisionByZero == Raise("DivisionByZero")

IsRaised(x) == "raises" \in DOMAIN x
IsSpecial(x) == "special" \in DOMAIN x
IsFinite(x) == "exp" \in DOMAIN x
IsInfinity(x) == IsSpecial(x) /\ x.special = "F"
IsNaN(x) == IsSpecial(x) /\ x.special # "F"
IsSNaN(x) == IsSpecial(x) /\ x.special = "N"

IsZero(x) == IsFinite(x) /\ x.int = <<0>>

Max(a, b) == IF a > b THEN a ELSE b
Min(a, b) == IF a < b THEN a ELSE b

XorSign(x, y) == IF x.sign = y.sign THEN 0 ELSE 1

\* Decimal.adjusted()
Adjusted(x) == Len(x.int) + x.exp - 1

\* s.lstrip('0')
LStripZeros(a) == IF AllZeros(a) THEN <<>> ELSE StripZeros(a)

\* Decimal._fix_nan: a payload of at most prec digits
FixNan(x) ==
    IF Len(x.payload) > Prec
    THEN Special(x.sign, x.special,
                 LStripZeros(SubSeq(x.payload, Len(x.payload) - Prec + 1,
                                    Len(x.payload))))
    ELSE x

\* Decimal._check_nans for operands of which one is a NaN: a signaling NaN
\* raises, a quiet NaN is the result, the first operand's before the second's
CheckNans(x, y) ==
    IF IsSNaN(x) \/ IsSNaN(y) THEN InvalidOperation
    ELSE IF IsNaN(x) THEN FixNan(x)
    ELSE FixNan(y)

\* Decimal._round_half_up: 1 round up, 0 exact, -1 round down, keeping
\* the first prec digits of int
RoundHalfUp(int, prec) ==
    IF int[prec + 1] >= 5 THEN 1
    ELSE IF AllZeros(SubSeq(int, prec + 1, Len(int))) THEN 0
    ELSE -1

ExactHalf(int, prec) ==
    int[prec + 1] = 5 /\ AllZeros(SubSeq(int, prec + 2, Len(int)))

\* Decimal._round_half_even
RoundHalfEven(int, prec) ==
    IF ExactHalf(int, prec) /\ (prec = 0 \/ int[prec] % 2 = 0) THEN -1
    ELSE RoundHalfUp(int, prec)

ROUND_HALF_UP == "ROUND_HALF_UP"
ROUND_HALF_EVEN == "ROUND_HALF_EVEN"

Changed(int, prec, rounding) ==
    IF rounding = ROUND_HALF_UP THEN RoundHalfUp(int, prec)
    ELSE RoundHalfEven(int, prec)

\* the first digits digits of int, plus one when the rounding says so
RoundCoeff(int, digits, rounding) ==
    IF Changed(int, digits, rounding) = 1
    THEN NatAdd(IF digits = 0 THEN <<0>> ELSE SubSeq(int, 1, digits), <<1>>)
    ELSE IF digits = 0 THEN <<0>> ELSE SubSeq(int, 1, digits)

\* Decimal._rescale(exp, rounding)
Rescale(x, exp, rounding) ==
    IF IsSpecial(x) THEN x
    ELSE IF IsZero(x) THEN Dec(x.sign, <<0>>, exp)
    ELSE IF x.exp >= exp THEN Dec(x.sign, x.int \o Zeros(x.exp - exp), exp)
    ELSE IF Len(x.int) + x.exp - exp < 0
         THEN Dec(x.sign, RoundCoeff(<<1>>, 0, rounding), exp)
         ELSE Dec(x.sign, RoundCoeff(x.int, Len(x.int) + x.exp - exp, rounding), exp)

\* the rounded coefficient at exp_min: a carry into a digit more than prec
\* moves the exponent up, past Etop it overflows
FixRounded(sign, coeff, exp_min) ==
    IF Len(coeff) > Prec
    THEN IF exp_min + 1 > Etop THEN Overflow
         ELSE Dec(sign, SubSeq(coeff, 1, Len(coeff) - 1), exp_min + 1)
    ELSE Dec(sign, coeff, exp_min)

\* round to exp_min when the exponent is below it
FixRound(x, exp_min) ==
    IF x.exp >= exp_min THEN x
    ELSE IF Len(x.int) + x.exp - exp_min < 0
         THEN FixRounded(x.sign, RoundCoeff(<<1>>, 0, ROUND_HALF_EVEN), exp_min)
         ELSE FixRounded(x.sign,
                         RoundCoeff(x.int, Len(x.int) + x.exp - exp_min,
                                    ROUND_HALF_EVEN),
                         exp_min)

\* Decimal._fix(context): round to the context's precision; a zero keeps an
\* exponent between Etiny and Emax, a result above Emax raises Overflow, a
\* subnormal result is rounded to Etiny
Fix(x) ==
    IF IsZero(x) THEN Dec(x.sign, <<0>>, Min(Max(x.exp, Etiny), Emax))
    ELSE IF Len(x.int) + x.exp - Prec > Etop THEN Overflow
    ELSE FixRound(x, Max(Len(x.int) + x.exp - Prec, Etiny))

\* Decimal.__mul__
DecMul(x, y) ==
    IF IsRaised(x) THEN x
    ELSE IF IsRaised(y) THEN y
    ELSE IF IsNaN(x) \/ IsNaN(y) THEN CheckNans(x, y)
    ELSE IF IsInfinity(x)
         THEN IF IsZero(y) THEN InvalidOperation
              ELSE Special(XorSign(x, y), "F", <<0>>)
    ELSE IF IsInfinity(y)
         THEN IF IsZero(x) THEN InvalidOperation
              ELSE Special(XorSign(x, y), "F", <<0>>)
    ELSE IF IsZero(x) \/ IsZero(y)
         THEN Fix(Dec(XorSign(x, y), <<0>>, x.exp + y.exp))
    ELSE Fix(Dec(XorSign(x, y), NatMul(x.int, y.int), x.exp + y.exp))

\* while exp < ideal_exp and coeff % 10 == 0: coeff //= 10; exp += 1
DropExactZeros(coeff, exp, ideal_exp) ==
    LET nz    == {i \in 1..Len(coeff) : coeff[i] # 0}
        last  == IF nz = {} THEN 1 ELSE CHOOSE i \in nz : \A j \in nz : i >= j
        drop  == Min(Max(ideal_exp - exp, 0), Len(coeff) - last)
    IN  Dec(0, SubSeq(coeff, 1, Len(coeff) - drop), exp + drop)

\* the quotient from divmod's <<coeff, remainder>>
DivQuotient(sign, qr, exp, ideal_exp) ==
    IF qr[2] # 0
    THEN Fix(Dec(sign,
                 IF qr[1][Len(qr[1])] % 5 = 0 THEN NatAdd(qr[1], <<1>>)
                 ELSE qr[1],
                 exp))
    ELSE Fix([DropExactZeros(qr[1], exp, ideal_exp) EXCEPT !.sign = sign])

\* divisors of up to this many digits are divided by limb by limb
ShortDivisor == Len(Pow10) + 1

\* <<quotient, whether a remainder is left>> from the divmod qr of the
\* leading digits and the digits lo that follow them
ShiftedResult(qr, lo) ==
    <<qr[1], IF qr[2] # 0 \/ ~AllZeros(lo) THEN 1 ELSE 0>>

\* divmod(a, k * 10**n) for n < Len(a)
DivModShifted(a, k, n) ==
    ShiftedResult(NatDivMod(SubSeq(a, 1, Len(a) - n), k),
                  SubSeq(a, Len(a) - n + 1, Len(a)))

\* the quotient of finite non-zero operands:
\* shift = len(other._int) - len(self._int) + context.prec + 1
DivShift(x, y, shift) ==
    DivQuotient(XorSign(x, y),
                IF Len(y.int) > ShortDivisor
                THEN IF shift >= 0
                     THEN NatDivModLong(x.int \o Zeros(shift), y.int)
                     ELSE NatDivModLong(x.int, y.int \o Zeros(-shift))
                ELSE IF shift >= 0
                     THEN NatDivMod(x.int \o Zeros(shift), NatVal(y.int))
                     ELSE DivModShifted(x.int, NatVal(y.int), -shift),
                x.exp - y.exp - shift,
                x.exp - y.exp)

\* Decimal.__truediv__
DecDiv(x, y) ==
    IF IsRaised(x) THEN x
    ELSE IF IsRaised(y) THEN y
    ELSE IF IsNaN(x) \/ IsNaN(y) THEN CheckNans(x, y)
    ELSE IF IsInfinity(x)
         THEN IF IsInfinity(y) THEN InvalidOperation
              ELSE Special(XorSign(x, y), "F", <<0>>)
    ELSE IF IsInfinity(y) THEN Dec(XorSign(x, y), <<0>>, Etiny)
    ELSE IF IsZero(y)
         THEN IF IsZero(x) THEN InvalidOperation ELSE DivisionByZero
    ELSE IF IsZero(x) THEN Fix(Dec(XorSign(x, y), <<0>>, x.exp - y.exp))
    ELSE DivShift(x, y, Len(y.int) - Len(x.int) + Prec + 1)

\* self + other for non-zero coefficients a and b at the same exponent;
\* exp is the smaller of the operands' exponents
AddSigned(xsign, a, ysign, b, e, exp) ==
    IF xsign # ysign
    THEN IF a = b THEN Fix(Dec(0, <<0>>, exp))
         ELSE IF NatCmp(a, b) < 0
              THEN Fix(Dec(ysign, NatSub(b, a), e))
              ELSE Fix(Dec(xsign, NatSub(a, b), e))
    ELSE Fix(Dec(xsign, NatAdd(a, b), e))

\* _normalize(op1, op2, prec): the exponent both coefficients are brought
\* to, hi the operand of the larger exponent, lo the other one; an operand
\* too small to matter counts as 1 at the exponent
\* hi.exp + min(-1, len(hi.int) - prec - 2)
NormalExp(hi, lo) ==
    IF Len(lo.int) + lo.exp - 1 < hi.exp + Min(-1, Len(hi.int) - Prec - 2)
    THEN hi.exp + Min(-1, Len(hi.int) - Prec - 2)
    ELSE lo.exp

\* the coefficient of x at the exponent e of _normalize
NormalInt(x, e) ==
    IF x.exp >= e THEN x.int \o Zeros(x.exp - e) ELSE <<1>>

AddNormal(x, y, e) ==
    AddSigned(x.sign, NormalInt(x, e), y.sign, NormalInt(y, e), e,
              Min(x.exp, y.exp))

\* Decimal.__add__
DecAdd(x, y) ==
    IF IsRaised(x) THEN x
    ELSE IF IsRaised(y) THEN y
    ELSE IF IsNaN(x) \/ IsNaN(y) THEN CheckNans(x, y)
    ELSE IF IsInfinity(x)
    THEN IF IsInfinity(y) /\ x.sign # y.sign THEN InvalidOperation ELSE x
    ELSE IF IsInfinity(y) THEN y
    ELSE IF IsZero(x) /\ IsZero(y)
         THEN Fix(Dec(Min(x.sign, y.sign), <<0>>, Min(x.exp, y.exp)))
    ELSE IF IsZero(x)
         THEN Fix(Rescale(y, Max(Min(x.exp, y.exp), y.exp - Prec - 1),
                          ROUND_HALF_EVEN))
    ELSE IF IsZero(y)
         THEN Fix(Rescale(x, Max(Min(x.exp, y.exp), x.exp - Prec - 1),
                          ROUND_HALF_EVEN))
    ELSE IF x.exp < y.exp THEN AddNormal(x, y, NormalExp(y, x))
    ELSE AddNormal(x, y, NormalExp(x, y))

\* Decimal.copy_negate
CopyNegate(x) == [x EXCEPT !.sign = 1 - x.sign]

\* Decimal.__sub__: self + other.copy_negate()
DecSub(x, y) ==
    IF IsRaised(x) THEN x
    ELSE IF IsRaised(y) THEN y
    ELSE IF IsNaN(x) \/ IsNaN(y) THEN CheckNans(x, y)
    ELSE DecAdd(x, CopyNegate(y))

\* the rescaled value, unless it needs more than prec digits
QuantizeChecked(ans) ==
    IF Adjusted(ans) > Emax \/ Len(ans.int) > Prec THEN InvalidOperation
    ELSE ans

\* Decimal.quantize(exp, rounding)
Quantize(x, e, rounding) ==
    IF IsRaised(x) THEN x
    ELSE IF IsNaN(x) \/ IsNaN(e) THEN CheckNans(x, e)
    ELSE IF IsInfinity(x) \/ IsInfinity(e)
         THEN IF IsInfinity(x) /\ IsInfinity(e) THEN x ELSE InvalidOperation
    ELSE IF e.exp < Etiny \/ e.exp > Emax THEN InvalidOperation
    ELSE IF IsZero(x) THEN Fix(Dec(x.sign, <<0>>, e.exp))
    ELSE IF Adjusted(x) > Emax \/ Adjusted(x) - e.exp + 1 > Prec
         THEN InvalidOperation
    ELSE QuantizeChecked(Rescale(x, e.exp, rounding))

------------------------------------------------------------------------------
\* Python values: a Decimal as above; a str is [chars |-> <<...>>]; an int is
\* [n |-> i]; a float that holds a number of hundredths is [hundredths |-> k];
\* None is [none |-> TRUE].  A character of a str is the string of that
\* character; a character that a string of this module cannot hold is written
\* by its code point, "U+2000".

PyNone == [none |-> TRUE]
PyStr(chars) == [chars |-> chars]
PyInt(i) == [n |-> i]
PyFloat(k) == [hundredths |-> k]

ValueError == Raise("ValueError")
NameError == Raise("NameError")

IsNone(x) == "none" \in DOMAIN x
IsDecimal(x) == "sign" \in DOMAIN x

\* the statement "name = v" followed by the statements F: an exception
\* raised by v ends them
Try(v, F(_)) == IF IsRaised(v) THEN v ELSE F(v)

DigitChar == <<"0", "1", "2", "3", "4", "5", "6", "7", "8", "9">>

\* the decimal digits of Unicode after 0-9 (category Nd), which Decimal(str)
\* takes for 0-9: each row the digits 0 to 9 of one script
UnicodeDigits == <<
    <<"U+0660", "U+0661", "U+0662", "U+0663", "U+0664",
      "U+0665", "U+0666", "U+0667", "U+0668", "U+0669">>,
    <<"U+06F0", "U+06F1", "U+06F2", "U+06F3", "U+06F4",
      "U+06F5", "U+06F6", "U+06F7", "U+06F8", "U+06F9">>,
    <<"U+07C0", "U+07C1", "U+07C2", "U+07C3", "U+07C4",
      "U+07C5", "U+07C6", "U+07C7", "U+07C8", "U+07C9">>,
    <<"U+0966", "U+0967", "U+0968", "U+0969", "U+096A",
      "U+096B", "U+096C", "U+096D", "U+096E", "U+096F">>,
    <<"U+09E6", "U+09E7", "U+09E8", "U+09E9", "U+09EA",
      "U+09EB", "U+09EC", "U+09ED", "U+09EE", "U+09EF">>,
    <<"U+0A66", "U+0A67", "U+0A68", "U+0A69", "U+0A6A",
      "U+0A6B", "U+0A6C", "U+0A6D", "U+0A6E", "U+0A6F">>,
    <<"U+0AE6", "U+0AE7", "U+0AE8", "U+0AE9", "U+0AEA",
      "U+0AEB", "U+0AEC", "U+0AED", "U+0AEE", "U+0AEF">>,
    <<"U+0B66", "U+0B67", "U+0B68", "U+0B69", "U+0B6A",
      "U+0B6B", "U+0B6C", "U+0B6D", "U+0B6E", "U+0B6F">>,
    <<"U+0BE6", "U+0BE7", "U+0BE8", "U+0BE9", "U+0BEA",
      "U+0BEB", "U+0BEC", "U+0BED", "U+0BEE", "U+0BEF">>,
    <<"U+0C66", "U+0C67", "U+0C68", "U+0C69", "U+0C6A",
      "U+0C6B", "U+0C6C", "U+0C6D", "U+0C6E", "U+0C6F">>,
    <<"U+0CE6", "U+0CE7", "U+0CE8", "U+0CE9", "U+0CEA",
      "U+0CEB", "U+0CEC", "U+0CED", "U+0CEE", "U+0CEF">>,
    <<"U+0D66", "U+0D67", "U+0D68", "U+0D69", "U+0D6A",
      "U+0D6B", "U+0D6C", "U+0D6D", "U+0D6E", "U+0D6F">>,
    <<"U+0DE6", "U+0DE7", "U+0DE8", "U+0DE9", "U+0DEA",
      "U+0DEB", "U+0DEC", "U+0DED", "U+0DEE", "U+0DEF">>,
    <<"U+0E50", "U+0E51", "U+0E52", "U+0E53", "U+0E54",
      "U+0E55", "U+0E56", "U+0E57", "U+0E58", "U+0E59">>,
    <<"U+0ED0", "U+0ED1", "U+0ED2", "U+0ED3", "U+0ED4",
      "U+0ED5", "U+0ED6", "U+0ED7", "U+0ED8", "U+0ED9">>,
    <<"U+0F20", "U+0F21", "U+0F22", "U+0F23", "U+0F24",
      "U+0F25", "U+0F26", "U+0F27", "U+0F28", "U+0F29">>,
    <<"U+1040", "U+1041", "U+1042", "U+1043", "U+1044",
      "U+1045", "U+1046", "U+1047", "U+1048", "U+1049">>,
    <<"U+1090", "U+1091", "U+1092", "U+1093", "U+1094",
      "U+1095", "U+1096", "U+1097", "U+1098", "U+1099">>,
    <<"U+17E0", "U+17E1", "U+17E2", "U+17E3", "U+17E4",
      "U+17E5", "U+17E6", "U+17E7", "U+17E8", "U+17E9">>,
    <<"U+1810", "U+1811", "U+1812", "U+1813", "U+1814",
      "U+1815", "U+1816", "U+1817", "U+1818", "U+1819">>,
    <<"U+1946", "U+1947", "U+1948", "U+1949", "U+194A",
      "U+194B", "U+194C", "U+194D", "U+194E", "U+194F">>,
    <<"U+19D0", "U+19D1", "U+19D2", "U+19D3", "U+19D4",
      "U+19D5", "U+19D6", "U+19D7", "U+19D8", "U+19D9">>,
    <<"U+1A80", "U+1A81", "U+1A82", "U+1A83", "U+1A84",
      "U+1A85", "U+1A86", "U+1A87", "U+1A88", "U+1A89">>,
    <<"U+1A90", "U+1A91", "U+1A92", "U+1A93", "U+1A94",
      "U+1A95", "U+1A96", "U+1A97", "U+1A98", "U+1A99">>,
    <<"U+1B50", "U+1B51", "U+1B52", "U+1B53", "U+1B54",
      "U+1B55", "U+1B56", "U+1B57", "U+1B58", "U+1B59">>,
    <<"U+1BB0", "U+1BB1", "U+1BB2", "U+1BB3", "U+1BB4",
      "U+1BB5", "U+1BB6", "U+1BB7", "U+1BB8", "U+1BB9">>,
    <<"U+1C40", "U+1C41", "U+1C42", "U+1C43", "U+1C44",
      "U+1C45", "U+1C46", "U+1C47", "U+1C48", "U+1C49">>,
    <<"U+1C50", "U+1C51", "U+1C52", "U+1C53", "U+1C54",
      "U+1C55", "U+1C56", "U+1C57", "U+1C58", "U+1C59">>,
    <<"U+A620", "U+A621", "U+A622", "U+A623", "U+A624",
      "U+A625", "U+A626", "U+A627", "U+A628", "U+A629">>,
    <<"U+A8D0", "U+A8D1", "U+A8D2", "U+A8D3", "U+A8D4",
      "U+A8D5", "U+A8D6", "U+A8D7", "U+A8D8", "U+A8D9">>,
    <<"U+A900", "U+A901", "U+A902", "U+A903", "U+A904",
      "U+A905", "U+A906", "U+A907", "U+A908", "U+A909">>,
    <<"U+A9D0", "U+A9D1", "U+A9D2", "U+A9D3", "U+A9D4",
      "U+A9D5", "U+A9D6", "U+A9D7", "U+A9D8", "U+A9D9">>,
    <<"U+A9F0", "U+A9F1", "U+A9F2", "U+A9F3", "U+A9F4",
      "U+A9F5", "U+A9F6", "U+A9F7", "U+A9F8", "U+A9F9">>,
    <<"U+AA50", "U+AA51", "U+AA52", "U+AA53", "U+AA54",
      "U+AA55", "U+AA56", "U+AA57", "U+AA58", "U+AA59">>,
    <<"U+ABF0", "U+ABF1", "U+ABF2", "U+ABF3", "U+ABF4",
      "U+ABF5", "U+ABF6", "U+ABF7", "U+ABF8", "U+ABF9">>,
    <<"U+FF10", "U+FF11", "U+FF12", "U+FF13", "U+FF14",
      "U+FF15", "U+FF16", "U+FF17", "U+FF18", "U+FF19">>,
    <<"U+104A0", "U+104A1", "U+104A2", "U+104A3", "U+104A4",
      "U+104A5", "U+104A6", "U+104A7", "U+104A8", "U+104A9">>,
    <<"U+10D30", "U+10D31", "U+10D32", "U+10D33", "U+10D34",
      "U+10D35", "U+10D36", "U+10D37", "U+10D38", "U+10D39">>,
    <<"U+11066", "U+11067", "U+11068", "U+11069", "U+1106A",
      "U+1106B", "U+1106C", "U+1106D", "U+1106E", "U+1106F">>,
    <<"U+110F0", "U+110F1", "U+110F2", "U+110F3", "U+110F4",
      "U+110F5", "U+110F6", "U+110F7", "U+110F8", "U+110F9">>,
    <<"U+11136", "U+11137", "U+11138", "U+11139", "U+1113A",
      "U+1113B", "U+1113C", "U+1113D", "U+1113E", "U+1113F">>,
    <<"U+111D0", "U+111D1", "U+111D2", "U+111D3", "U+111D4",
      "U+111D5", "U+111D6", "U+111D7", "U+111D8", "U+111D9">>,
    <<"U+112F0", "U+112F1", "U+112F2", "U+112F3", "U+112F4",
      "U+112F5", "U+112F6", "U+112F7", "U+112F8", "U+112F9">>,
    <<"U+11450", "U+11451", "U+11452", "U+11453", "U+11454",
      "U+11455", "U+11456", "U+11457", "U+11458", "U+11459">>,
    <<"U+114D0", "U+114D1", "U+114D2", "U+114D3", "U+114D4",
      "U+114D5", "U+114D6", "U+114D7", "U+114D8", "U+114D9">>,
    <<"U+11650", "U+11651", "U+11652", "U+11653", "U+11654",
      "U+11655", "U+11656", "U+11657", "U+11658", "U+11659">>,
    <<"U+116C0", "U+116C1", "U+116C2", "U+116C3", "U+116C4",
      "U+116C5", "U+116C6", "U+116C7", "U+116C8", "U+116C9">>,
    <<"U+11730", "U+11731", "U+11732", "U+11733", "U+11734",
      "U+11735", "U+11736", "U+11737", "U+11738", "U+11739">>,
    <<"U+118E0", "U+118E1", "U+118E2", "U+118E3", "U+118E4",
      "U+118E5", "U+118E6", "U+118E7", "U+118E8", "U+118E9">>,
    <<"U+11950", "U+11951", "U+11952", "U+11953", "U+11954",
      "U+11955", "U+11956", "U+11957", "U+11958", "U+11959">>,
    <<"U+11C50", "U+11C51", "U+11C52", "U+11C53", "U+11C54",
      "U+11C55", "U+11C56", "U+11C57", "U+11C58", "U+11C59">>,
    <<"U+11D50", "U+11D51", "U+11D52", "U+11D53", "U+11D54",
      "U+11D55", "U+11D56", "U+11D57", "U+11D58", "U+11D59">>,
    <<"U+11DA0", "U+11DA1", "U+11DA2", "U+11DA3", "U+11DA4",
      "U+11DA5", "U+11DA6", "U+11DA7", "U+11DA8", "U+11DA9">>,
    <<"U+16A60", "U+16A61", "U+16A62", "U+16A63", "U+16A64",
      "U+16A65", "U+16A66", "U+16A67", "U+16A68", "U+16A69">>,
    <<"U+16AC0", "U+16AC1", "U+16AC2", "U+16AC3", "U+16AC4",
      "U+16AC5", "U+16AC6", "U+16AC7", "U+16AC8", "U+16AC9">>,
    <<"U+16B50", "U+16B51", "U+16B52", "U+16B53", "U+16B54",
      "U+16B55", "U+16B56", "U+16B57", "U+16B58", "U+16B59">>,
    <<"U+1D7CE", "U+1D7CF", "U+1D7D0", "U+1D7D1", "U+1D7D2",
      "U+1D7D3", "U+1D7D4", "U+1D7D5", "U+1D7D6", "U+1D7D7">>,
    <<"U+1D7D8", "U+1D7D9", "U+1D7DA", "U+1D7DB", "U+1D7DC",
      "U+1D7DD", "U+1D7DE", "U+1D7DF", "U+1D7E0", "U+1D7E1">>,
    <<"U+1D7E2", "U+1D7E3", "U+1D7E4", "U+1D7E5", "U+1D7E6",
      "U+1D7E7", "U+1D7E8", "U+1D7E9", "U+1D7EA", "U+1D7EB">>,
    <<"U+1D7EC", "U+1D7ED", "U+1D7EE", "U+1D7EF", "U+1D7F0",
      "U+1D7F1", "U+1D7F2", "U+1D7F3", "U+1D7F4", "U+1D7F5">>,
    <<"U+1D7F6", "U+1D7F7", "U+1D7F8", "U+1D7F9", "U+1D7FA",
      "U+1D7FB", "U+1D7FC", "U+1D7FD", "U+1D7FE", "U+1D7FF">>,
    <<"U+1E140", "U+1E141", "U+1E142", "U+1E143", "U+1E144",
      "U+1E145", "U+1E146", "U+1E147", "U+1E148", "U+1E149">>,
    <<"U+1E2F0", "U+1E2F1", "U+1E2F2", "U+1E2F3", "U+1E2F4",
      "U+1E2F5", "U+1E2F6", "U+1E2F7", "U+1E2F8", "U+1E2F9">>,
    <<"U+1E950", "U+1E951", "U+1E952", "U+1E953", "U+1E954",
      "U+1E955", "U+1E956", "U+1E957", "U+1E958", "U+1E959">>,
    <<"U+1FBF0", "U+1FBF1", "U+1FBF2", "U+1FBF3", "U+1FBF4",
      "U+1FBF5", "U+1FBF6", "U+1FBF7", "U+1FBF8", "U+1FBF9">> >>

\* the characters with the decimal value k, for k + 1 in 1..10
DigitsOfValue ==
    <<>> \o [k \in 1..10 |->
                {DigitChar[k]} \cup {UnicodeDigits[r][k] : r \in 1..Len(UnicodeDigits)}]

IsDigit(c) == \E k \in 1..10 : c \in DigitsOfValue[k]

CharDigit(c) == CHOOSE k \in 0..9 : c \in DigitsOfValue[k + 1]

DigitsStr(a) == <<>> \o [i \in 1..Len(a) |-> DigitChar[a[i] + 1]]

\* Decimal(str) first writes every decimal digit of the string as 0-9
AsciiDigits(s) ==
    <<>> \o [i \in 1..Len(s) |->
                IF IsDigit(s[i]) THEN DigitChar[CharDigit(s[i]) + 1] ELSE s[i]]

\* the digits of a string of 0-9
StrDigits(s) ==
    <<>> \o [i \in 1..Len(s) |-> CHOOSE k \in 0..9 : DigitChar[k + 1] = s[i]]

\* every character is one of 0-9
AllDigits(s) == \A i \in 1..Len(s) : \E k \in 1..10 : DigitChar[k] = s[i]

\* str(int)
IntStr(i) == IF i < 0 THEN <<"-">> \o DigitsStr(NatDigits(-i))
             ELSE DigitsStr(NatDigits(i))

\* repr(float) of k/100: the shortest digits, at least one after the point
FloatStr(k) ==
    LET a    == IF k < 0 THEN -k ELSE k
        sign == IF k < 0 THEN <<"-">> ELSE <<>>
        frac == IF a % 10 = 0 THEN <<(a % 100) \div 10>>
                ELSE <<(a % 100) \div 10, a % 10>>
    IN  sign \o DigitsStr(NatDigits(a \div 100)) \o <<".">> \o DigitsStr(frac)

\* str of Infinity, NaN and sNaN, without the sign
SpecialStr(x) ==
    IF x.special = "F" THEN <<"I", "n", "f", "i", "n", "i", "t", "y">>
    ELSE IF x.special = "n" THEN <<"N", "a", "N">> \o DigitsStr(x.payload)
    ELSE <<"s", "N", "a", "N">> \o DigitsStr(x.payload)

\* Decimal.__str__: plain notation when exp <= 0 and the value is not too
\* small, scientific notation otherwise
DecStr(x) ==
    IF IsSpecial(x)
    THEN (IF x.sign = 1 THEN <<"-">> ELSE <<>>) \o SpecialStr(x)
    ELSE
    LET leftdigits == x.exp + Len(x.int)
        dotplace   == IF x.exp <= 0 /\ leftdigits > -6 THEN leftdigits ELSE 1
        intpart    == IF dotplace <= 0 THEN <<"0">>
                      ELSE IF dotplace >= Len(x.int)
                           THEN DigitsStr(x.int \o Zeros(dotplace - Len(x.int)))
                           ELSE DigitsStr(SubSeq(x.int, 1, dotplace))
        fracpart   == IF dotplace <= 0
                      THEN <<".">> \o DigitsStr(Zeros(-dotplace) \o x.int)
                      ELSE IF dotplace >= Len(x.int) THEN <<>>
                           ELSE <<".">> \o DigitsStr(SubSeq(x.int, dotplace + 1, Len(x.int)))
        e          == leftdigits - dotplace
        exp        == IF e = 0 THEN <<>>
                      ELSE IF e > 0 THEN <<"E", "+">> \o IntStr(e)
                           ELSE <<"E">> \o IntStr(e)
    IN  (IF x.sign = 1 THEN <<"-">> ELSE <<>>) \o intpart \o fracpart \o exp

str(x) == IF "chars" \in DOMAIN x THEN x.chars
          ELSE IF "n" \in DOMAIN x THEN IntStr(x.n)
          ELSE IF IsDecimal(x) THEN DecStr(x)
          ELSE IF IsNone(x) THEN <<"N", "o", "n", "e">>
          ELSE FloatStr(x.hundredths)

\* index of the first c in s at or after i, 0 when there is none
Find(s, c, i) ==
    LET at == {j \in i..Len(s) : s[j] = c}
    IN  IF at = {} THEN 0 ELSE CHOOSE j \in at : \A k \in at : j <= k

\* the characters str.isspace() holds: space, \t, \n, \r, \f, then written
\* as they are \x0b, \x1c, \x1d, \x1e, \x1f, \x85, \xa0 and \u1680, then
\* by their code points \u2000 to \u200a, \u2028, \u2029, \u202f, \u205f
\* and \u3000
Whitespace == {" ", "\t", "\n", "\r", "\f", "", "", "", "", "", "", " ", " ",
               "U+2000", "U+2001", "U+2002", "U+2003", "U+2004", "U+2005",
               "U+2006", "U+2007", "U+2008", "U+2009", "U+200A", "U+2028",
               "U+2029", "U+202F", "U+205F", "U+3000"}

\* s.strip()
Strip(s) ==
    LET ink == {i \in 1..Len(s) : s[i] \notin Whitespace}
    IN  IF ink = {} THEN <<>>
        ELSE SubSeq(s, CHOOSE i \in ink : \A j \in ink : i <= j,
                       CHOOSE i \in ink : \A j \in ink : i >= j)

\* s.replace("_", "")
DropUnderscores(s) == SelectSeq(s, LAMBDA c : c # "_")

Lower(s) ==
    LET \* s.lower() on the letters a numeric string can hold
        LowerChar(c) ==
            CASE c = "E" -> "e" [] c = "I" -> "i" [] c = "N" -> "n" [] c = "F" -> "f"
              [] c = "T" -> "t" [] c = "Y" -> "y" [] c = "A" -> "a" [] c = "S" -> "s"
              [] OTHER -> c
    IN  <<>> \o [i \in 1..Len(s) |-> LowerChar(s[i])]

\* the integer and fractional digits with the exponent exp
ParseDigits(sign, intpart, fracpart, exp) ==
    IF AllDigits(intpart) /\ AllDigits(fracpart)
       /\ Len(intpart) + Len(fracpart) > 0
    THEN Dec(sign, StripZeros(StrDigits(intpart \o fracpart)), exp - Len(fracpart))
    ELSE InvalidOperation

\* the mantissa \d* (\. \d*)? with at least one digit, dot the index of its
\* first "." or 0
ParseMantissa(sign, mant, dot, exp) ==
    IF dot = 0 THEN ParseDigits(sign, mant, <<>>, exp)
    ELSE ParseDigits(sign, SubSeq(mant, 1, dot - 1),
                     SubSeq(mant, dot + 1, Len(mant)), exp)

\* a number: mantissa (E exponent)?, epos the index of the first "e" or 0
ParseNumber(sign, body, epos) ==
    LET \* the exponent part matches [-+]?\d+
        IsExponent(s) ==
            /\ Len(s) > 0
            /\ IF s[1] \in {"-", "+"} THEN Len(s) > 1 /\ AllDigits(Tail(s))
               ELSE AllDigits(s)
        \* int(str) for [sign] digits, of at most 9 digits
        ParseInt(s) ==
            IF s[1] = "-" THEN -NatVal(StripZeros(StrDigits(Tail(s))))
            ELSE IF s[1] = "+" THEN NatVal(StripZeros(StrDigits(Tail(s))))
            ELSE NatVal(StripZeros(StrDigits(s)))
    IN  IF epos = 0 THEN ParseMantissa(sign, body, Find(body, ".", 1), 0)
        ELSE IF IsExponent(SubSeq(body, epos + 1, Len(body)))
             THEN ParseMantissa(sign, SubSeq(body, 1, epos - 1),
                                Find(SubSeq(body, 1, epos - 1), ".", 1),
                                ParseInt(SubSeq(body, epos + 1, Len(body))))
             ELSE InvalidOperation

\* s?NaN\d* after its letters: the diagnostic digits
ParseNaN(sign, special, diag) ==
    IF AllDigits(diag) THEN Special(sign, special, LStripZeros(StrDigits(diag)))
    ELSE InvalidOperation

\* the lower-cased string after the sign: Inf(inity)?, s?NaN\d* or a number
ParseUnsigned(sign, body) ==
    IF body \in {<<"i", "n", "f">>, <<"i", "n", "f", "i", "n", "i", "t", "y">>}
    THEN Special(sign, "F", <<0>>)
    ELSE IF Len(body) >= 3 /\ SubSeq(body, 1, 3) = <<"n", "a", "n">>
         THEN ParseNaN(sign, "n", SubSeq(body, 4, Len(body)))
    ELSE IF Len(body) >= 4 /\ SubSeq(body, 1, 4) = <<"s", "n", "a", "n">>
         THEN ParseNaN(sign, "N", SubSeq(body, 5, Len(body)))
    ELSE ParseNumber(sign, body, Find(body, "e", 1))

ParseSigned(s) ==
    IF Len(s) > 0 /\ s[1] \in {"-", "+"}
    THEN ParseUnsigned(IF s[1] = "-" THEN 1 ELSE 0, Tail(s))
    ELSE ParseUnsigned(0, s)

\* Decimal(str): surrounding whitespace and underscores dropped, the decimal
\* digits of any script taken for 0-9, letters in either case,
\* InvalidOperation for what is not a numeric string
ParseDecimal(s) == ParseSigned(Lower(AsciiDigits(DropUnderscores(Strip(s)))))

EURO == Dec(0, <<1>>, -2)

d(x) ==
    IF IsRaised(x) THEN x
    ELSE IF IsDecimal(x) THEN x
    ELSE ParseDecimal(str(x))

quant2(x) == Quantize(d(x), EURO, ROUND_HALF_UP)

\* the digits of a finite r before and after the point
FormatF(r) ==
    LET dotplace == r.exp + Len(r.int)
        intpart  == IF dotplace <= 0 THEN <<0>> ELSE SubSeq(r.int, 1, dotplace)
        fracpart == IF dotplace <= 0 THEN Zeros(-dotplace) \o r.int
                    ELSE SubSeq(r.int, dotplace + 1, Len(r.int))
    IN  (IF r.sign = 1 THEN <<"-">> ELSE <<>>)
        \o DigitsStr(intpart) \o <<".">> \o DigitsStr(fracpart)

\* f"{xq:.2f}"
Format2f(xq) ==
    IF IsSpecial(xq) THEN DecStr(xq)
    ELSE FormatF(Rescale(xq, -2, ROUND_HALF_EVEN))

\* s.split(c)
RECURSIVE Split(_, _)
Split(s, c) ==
    LET SplitAt(i) ==
            IF i = 0 THEN <<s>>
            ELSE <<SubSeq(s, 1, i - 1)>> \o Split(SubSeq(s, i + 1, Len(s)), c)
    IN  SplitAt(Find(s, c, 1))

\* s[::-1]
Reverse(s) == <<>> \o [i \in 1..Len(s) |-> s[Len(s) + 1 - i]]

\* [rev[i:i+3] for i in range(0, len(rev), 3)]
Chunks(rev) ==
    <<>> \o [k \in 1..((Len(rev) + 2) \div 3) |->
        SubSeq(rev, 3 * k - 2, Min(3 * k, Len(rev)))]

\* c.join(parts)
RECURSIVE Join(_, _)
Join(parts, c) ==
    IF Len(parts) = 0 THEN <<>>
    ELSE IF Len(parts) = 1 THEN parts[1]
    ELSE parts[1] \o <<c>> \o Join(Tail(parts), c)

\* rev = whole[::-1]; chunks; whole_fmt = ".".join(chunks)[::-1];
\* f"{whole_fmt},{frac} €"
eur_text(whole, frac) ==
    PyStr(Reverse(Join(Chunks(Reverse(whole)), "."))
          \o <<",">> \o frac \o <<" ", "€">>)

\* whole, frac = s.split("."): anything but two parts is a ValueError
eur_parts(parts) ==
    IF Len(parts) # 2 THEN ValueError ELSE eur_text(parts[1], parts[2])

eur_format(xq) == eur_parts(Split(Format2f(xq), "."))

eur(x) == Try(quant2(x), LAMBDA xq : eur_format(xq))

------------------------------------------------------------------------------
\* grundsteuer_rechner.py

Inputs(gsw, mess, heb, years, custom) ==
    [grundsteuerwert |-> gsw, messzahl_permille |-> mess,
     hebesatz_prozent |-> heb, years |-> years, custom_verkehrswert |-> custom]

\* the per-mille rate taken for a percentage
permille_as_percent(x) == DecDiv(x, ParseDecimal(<<"1", "0", "0">>))

\* ‰ -> dezimal
permille(x) == DecDiv(x, ParseDecimal(<<"1", "0", "0", "0">>))

\* % -> faktor
prozent(x) == DecDiv(x, ParseDecimal(<<"1", "0", "0">>))

Results(now, schwelle, beim_schwellenwert, pro_jahr, gesamt) ==
    [steuer_status_quo |-> now,
     schwelle_40_prozent |-> schwelle,
     steuer_beim_schwellenwert |-> beim_schwellenwert,
     ersparnis_pro_jahr_schwelle |-> pro_jahr,
     ersparnis_gesamt_schwelle |-> gesamt,
     steuer_beim_custom |-> PyNone,
     ersparnis_pro_jahr_custom |-> PyNone,
     ersparnis_gesamt_custom |-> PyNone]

\* "if inputs.custom_verkehrswert:", false for None and for Decimal 0
custom_supplied_truthy(custom_verkehrswert) ==
    ~IsNone(custom_verkehrswert) /\ ~IsZero(custom_verkehrswert)

\* if inputs.custom_verkehrswert is not None
custom_supplied(custom_verkehrswert) == ~IsNone(custom_verkehrswert)

\* the custom savings per year stored in the threshold's field
set_custom_wrong_field(res, steuer_custom, ersparnis_custom_jahr, ersparnis_custom_gesamt) ==
    [res EXCEPT !.steuer_beim_custom = steuer_custom,
                !.ersparnis_pro_jahr_schwelle = ersparnis_custom_jahr,
                !.ersparnis_pro_jahr_custom = ersparnis_custom_jahr,
                !.ersparnis_gesamt_custom = ersparnis_custom_gesamt]

\* res.steuer_beim_custom = ...; res.ersparnis_pro_jahr_custom = ...;
\* res.ersparnis_gesamt_custom = ...
set_custom(res, steuer_custom, ersparnis_custom_jahr, ersparnis_custom_gesamt) ==
    [res EXCEPT !.steuer_beim_custom = steuer_custom,
                !.ersparnis_pro_jahr_custom = ersparnis_custom_jahr,
                !.ersparnis_gesamt_custom = ersparnis_custom_gesamt]

\* berechne with the savings taken from the unrounded taxes
berechne_subtract_then_round(inp) ==
    Try(d(inp.grundsteuerwert),                         LAMBDA gsw :
    Try(permille(d(inp.messzahl_permille)),             LAMBDA mess :
    Try(prozent(d(inp.hebesatz_prozent)),               LAMBDA heb :
    Bind(inp.years,                                     LAMBDA years :
    Try(quant2(DecMul(DecMul(gsw, mess), heb)),         LAMBDA steuer_now :
    Try(quant2(DecDiv(gsw, ParseDecimal(<<"1", ".", "4">>))), LAMBDA vmax :
    Try(quant2(DecMul(DecMul(vmax, mess), heb)),        LAMBDA steuer_vmax :
    Try(quant2(DecSub(DecMul(DecMul(gsw, mess), heb),
                      DecMul(DecMul(vmax, mess), heb))),
                                                        LAMBDA ersparnis_vmax_jahr :
    Try(quant2(DecMul(ersparnis_vmax_jahr, d(PyInt(years)))),
                                                        LAMBDA ersparnis_vmax_gesamt :
    Bind(Results(steuer_now, vmax, steuer_vmax, ersparnis_vmax_jahr,
                 ersparnis_vmax_gesamt),                LAMBDA res :
        IF custom_supplied(inp.custom_verkehrswert)
        THEN
            Try(d(inp.custom_verkehrswert),                   LAMBDA cv :
            Try(quant2(DecMul(DecMul(cv, mess), heb)),        LAMBDA steuer_custom :
            Try(quant2(DecSub(steuer_now, steuer_custom)),    LAMBDA ersparnis_custom_jahr :
            Try(quant2(DecMul(ersparnis_custom_jahr, d(PyInt(years)))),
                                                              LAMBDA ersparnis_custom_gesamt :
                set_custom(res, steuer_custom, ersparnis_custom_jahr,
                           ersparnis_custom_gesamt)))))
        ELSE res))))))))))

\* berechne(inputs): the Results, or the exception a statement raised
berechne(inp) ==
    Try(d(inp.grundsteuerwert),                         LAMBDA gsw :
    Try(permille(d(inp.messzahl_permille)),             LAMBDA mess :
    Try(prozent(d(inp.hebesatz_prozent)),               LAMBDA heb :
    Bind(inp.years,                                     LAMBDA years :
    Try(quant2(DecMul(DecMul(gsw, mess), heb)),         LAMBDA steuer_now :
    Try(quant2(DecDiv(gsw, ParseDecimal(<<"1", ".", "4">>))), LAMBDA vmax :
    Try(quant2(DecMul(DecMul(vmax, mess), heb)),        LAMBDA steuer_vmax :
    Try(quant2(DecSub(steuer_now, steuer_vmax)),        LAMBDA ersparnis_vmax_jahr :
    Try(quant2(DecMul(ersparnis_vmax_jahr, d(PyInt(years)))),
                                                        LAMBDA ersparnis_vmax_gesamt :
    Bind(Results(steuer_now, vmax, steuer_vmax, ersparnis_vmax_jahr,
                 ersparnis_vmax_gesamt),                LAMBDA res :
        IF custom_supplied(inp.custom_verkehrswert)
        THEN
            Try(d(inp.custom_verkehrswert),                   LAMBDA cv :
            Try(quant2(DecMul(DecMul(cv, mess), heb)),        LAMBDA steuer_custom :
            Try(quant2(DecSub(steuer_now, steuer_custom)),    LAMBDA ersparnis_custom_jahr :
            Try(quant2(DecMul(ersparnis_custom_jahr, d(PyInt(years)))),
                                                              LAMBDA ersparnis_custom_gesamt :
                set_custom(res, steuer_custom, ersparnis_custom_jahr,
                           ersparnis_custom_gesamt)))))
        ELSE res))))))))))

\* the index of the first value that is an exception, 0 when none is
FirstRaised(values) ==
    LET at == {i \in 1..Len(values) : IsRaised(values[i])}
    IN  IF at = {} THEN 0 ELSE CHOOSE i \in at : \A j \in at : i <= j

\* the values written before the first exception
Printed(values) ==
    IF FirstRaised(values) = 0 THEN values
    ELSE SubSeq(values, 1, FirstRaised(values) - 1)

\* the exception that ends the writing, None when all values are written
Uncaught(values) ==
    IF FirstRaised(values) = 0 THEN PyNone ELSE values[FirstRaised(values)]

\* the literal text of an f-string
Lit(text) == [text |-> text]

\* the character of a code point, for a literal's characters "\u2013" (en
\* dash) and "\u2030" (per mille sign)
Chr(codepoint) == [codepoint |-> codepoint]

\* the lines print_table prints, in order; a line is the pieces of its
\* f-string, literal text and the str of the values in braces; a piece is
\* the exception when formatting its value raises
print_table(inp, result) ==
    << <<Lit("Grundsteuer "), Chr(8211),
         Lit(" Einsparungsrechner (§ 220 Abs. 2 BewG)")>>,
       <<>>,
       <<Lit("Eingaben:")>>,
       <<Lit("  Grundsteuerwert:        "), eur(inp.grundsteuerwert)>>,
       <<Lit("  Messzahl:               "), PyStr(str(inp.messzahl_permille)),
         Lit(" "), Chr(8240)>>,
       <<Lit("  Hebesatz:               "), PyStr(str(inp.hebesatz_prozent)),
         Lit(" %")>>,
       <<Lit("  Restjahre:              "), PyStr(IntStr(inp.years))>> >>
    \o (IF ~IsNone(inp.custom_verkehrswert)
        THEN << <<Lit("  Custom-Verkehrswert:    "), eur(inp.custom_verkehrswert)>> >>
        ELSE <<>>)
    \o << <<>>,
          <<Lit("Ergebnisse:")>>,
          <<Lit("  Status quo "), Chr(8211), Lit(" Jahressteuer:              "),
            eur(result.steuer_status_quo)>>,
          <<Lit("  40%-Schwelle (Wert = GSW / 1,4):        "),
            eur(result.schwelle_40_prozent)>>,
          <<Lit("  Steuer bei 40%-Schwelle:                "),
            eur(result.steuer_beim_schwellenwert)>>,
          <<Lit("  Ersparnis pro Jahr (Schwelle):          "),
            eur(result.ersparnis_pro_jahr_schwelle)>>,
          <<Lit("  Ersparnis über "), PyStr(IntStr(inp.years)),
            Lit(" Jahr(e):             "), eur(result.ersparnis_gesamt_schwelle)>> >>
    \o (IF ~IsNone(result.steuer_beim_custom)
        THEN << <<>>,
                <<Lit("  Szenario "), Chr(8211), Lit(" Verkehrswert "), eur(inp.custom_verkehrswert),
                  Lit(":")>>,
                <<Lit("    Jahressteuer:                          "),
                  eur(result.steuer_beim_custom)>>,
                <<Lit("    Ersparnis pro Jahr:                    "),
                  eur(result.ersparnis_pro_jahr_custom)>>,
                <<Lit("    Ersparnis über "), PyStr(IntStr(inp.years)),
                  Lit(" Jahr(e):           "), eur(result.ersparnis_gesamt_custom)>> >>
        ELSE <<>>)

\* the index of the first line with a piece that is an exception, 0 when
\* there is none
FirstRaisedLine(lines) ==
    LET at == {i \in 1..Len(lines) : FirstRaised(lines[i]) # 0}
    IN  IF at = {} THEN 0 ELSE CHOOSE i \in at : \A j \in at : i <= j

\* the lines printed before the first exception
PrintedLines(lines) ==
    IF FirstRaisedLine(lines) = 0 THEN lines
    ELSE SubSeq(lines, 1, FirstRaisedLine(lines) - 1)

\* the exception that ends the printing, None when all lines are printed
UncaughtLine(lines) ==
    IF FirstRaisedLine(lines) = 0 THEN PyNone
    ELSE Uncaught(lines[FirstRaisedLine(lines)])

\* inputs = Inputs(grundsteuerwert=d(args.gsw), ...) from the arguments
\* --gsw, --mess, --heb, --years and --custom (None when not given)
main_inputs(gsw, mess, heb, years, custom) ==
    Try(d(gsw),                                         LAMBDA grundsteuerwert :
    Try(d(mess),                                        LAMBDA messzahl_permille :
    Try(d(heb),                                         LAMBDA hebesatz_prozent :
    Try(IF IsNone(custom) THEN PyNone ELSE d(custom),   LAMBDA custom_verkehrswert :
        Inputs(grundsteuerwert, messzahl_permille, hebesatz_prozent, years,
               custom_verkehrswert)))))

------------------------------------------------------------------------------
\* streamlit_app.py: the script binds Path and st and nothing of decimal, so
\* the first use of a name of decimal raises NameError

app_imports == {"Path", "st"}

\* the value v of an expression that looks the name up first
app_name(name, v) == IF name \in app_imports THEN v ELSE NameError

\* getcontext().prec = 28; EURO = Decimal("0.01")
app_context ==
    Try(app_name("getcontext", PyNone), LAMBDA ctx :
        app_name("Decimal", EURO))

\* def d(x), reached once the lines before it have run
app_d(x) ==
    Try(app_context, LAMBDA euro :
    Try(x,           LAMBDA v :
        app_name("Decimal", ParseDecimal(str(v)))))

app_quant2(x) ==
    Try(app_context, LAMBDA euro :
    Try(app_d(x),    LAMBDA dx :
        app_name("ROUND_HALF_UP", Quantize(dx, euro, ROUND_HALF_UP))))

app_eur(x) == Try(app_quant2(x), LAMBDA xq : eur_format(xq))

\* the form: gsw and years are ints, mess_permille and heb_prozent floats,
\* custom_v is None unless the checkbox use_custom is ticked
Form(gsw, years, mess_permille, heb_prozent, use_custom, custom_v) ==
    [gsw |-> gsw, years |-> years, mess_permille |-> mess_permille,
     heb_prozent |-> heb_prozent, use_custom |-> use_custom,
     custom_v |-> custom_v]

\* if use_custom and custom_v is not None and custom_v > 0
app_custom_shown(f) ==
    f.use_custom /\ ~IsNone(f.custom_v) /\ f.custom_v.n > 0

\* Decimal("1000"), Decimal("100"), Decimal("1.4") in the handler
app_Decimal(s) == app_name("Decimal", ParseDecimal(s))

\* the values the handler computes before its first st.metric; the custom
\* ones are None until the custom block runs
app_submitted(f) ==
    Try(DecDiv(app_d(f.mess_permille), app_Decimal(<<"1", "0", "0", "0">>)),
                                                                 LAMBDA mess :
    Try(DecDiv(app_d(f.heb_prozent), app_Decimal(<<"1", "0", "0">>)),
                                                                 LAMBDA heb :
    Try(app_quant2(DecMul(DecMul(app_d(f.gsw), mess), heb)),     LAMBDA steuer_now :
    Try(app_quant2(DecDiv(app_d(f.gsw), app_Decimal(<<"1", ".", "4">>))),
                                                                 LAMBDA vmax :
    Try(app_quant2(DecMul(DecMul(vmax, mess), heb)),             LAMBDA steuer_vmax :
    Try(app_quant2(DecSub(steuer_now, steuer_vmax)),             LAMBDA ersparnis_vmax_jahr :
    Try(app_quant2(DecMul(ersparnis_vmax_jahr, app_d(f.years))),
                                                                 LAMBDA ersparnis_vmax_gesamt :
        [mess |-> mess, heb |-> heb,
         steuer_now |-> steuer_now, vmax |-> vmax, steuer_vmax |-> steuer_vmax,
         ersparnis_vmax_jahr |-> ersparnis_vmax_jahr,
         ersparnis_vmax_gesamt |-> ersparnis_vmax_gesamt,
         steuer_custom |-> PyNone, ersparnis_custom_jahr |-> PyNone,
         ersparnis_custom_gesamt |-> PyNone])))))))

\* the eur(...) values of the first five st.metric calls, in order
app_metrics(c) ==
    <<app_eur(c.steuer_now), app_eur(c.vmax), app_eur(c.steuer_vmax),
      app_eur(c.ersparnis_vmax_jahr), app_eur(c.ersparnis_vmax_gesamt)>>

\* the values of the custom block, computed after the first five metrics
app_custom(f, c) ==
    Try(app_quant2(DecMul(DecMul(app_d(f.custom_v), c.mess), c.heb)),
                                                         LAMBDA steuer_custom :
    Try(app_quant2(DecSub(c.steuer_now, steuer_custom)), LAMBDA ersparnis_custom_jahr :
    Try(app_quant2(DecMul(ersparnis_custom_jahr, app_d(f.years))),
                                                         LAMBDA ersparnis_custom_gesamt :
        [c EXCEPT !.steuer_custom = steuer_custom,
                  !.ersparnis_custom_jahr = ersparnis_custom_jahr,
                  !.ersparnis_custom_gesamt = ersparnis_custom_gesamt])))

\* the eur(...) values of the custom block's st.metric calls, in order
app_custom_metrics(f, c) ==
    <<app_eur(app_d(f.custom_v)), app_eur(c.steuer_custom),
      app_eur(c.ersparnis_custom_jahr), app_eur(c.ersparnis_custom_gesamt)>>

\* a run of the script with the form submitted: the lines after the form,
\* then "if submitted"
app_script(f) == Try(app_context, LAMBDA euro : app_submitted(f))

------------------------------------------------------------------------------
\* --json: json.dumps(asdict(results), default=enc, ensure_ascii=False,
\* indent=2), where enc makes a Decimal a float.  A float is the record
\* [neg, m, e] of the value (-1)^neg * m * 2^e with 2^52 <= m < 2^53 (m a
\* digit sequence), or [neg, zero |-> TRUE], or [nan |-> TRUE].

\* 2^k, sixteen bits at a time
RECURSIVE PowerOfTwo(_)
PowerOfTwo(k) ==
    IF k < 16 THEN NatDigits(2 ^ k)
    ELSE NatMul(PowerOfTwo(k - 16), NatDigits(2 ^ 16))

\* 2^0, 2^1, ..: the powers of two a coefficient of Prec digits needs
Pow2 == SubSeq([i \in 1..(4 * Prec + 1) |-> PowerOfTwo(i - 1)], 1, 4 * Prec + 1)

TwoTo(k) == Pow2[k + 1]

\* sys.float_info.mant_dig
MantDig == 53

\* the least e of the cents: 0.01 is above 2^-7
MinLog2 == -7

\* float(o) of a Decimal o that quant2 returned: NaN, or cents
float(o) ==
    LET \* floor(log2(n / 100)) for cents n > 0, n128 == n * 2^7
        Log2Shifted(n128) ==
            Cardinality({j \in 0..(Len(Pow2) - 1) :
                            NatCmp(TwoTo(j) \o <<0, 0>>, n128) <= 0}) - 1 + MinLog2
        Log2Cents(n) ==
            Bind(NatMul(n, TwoTo(-MinLog2)), LAMBDA n128 : Log2Shifted(n128))
        \* m, or when rounding made it 2^53, 2^52 with the next exponent
        FloatNormal(neg, m, e) ==
            IF m = TwoTo(MantDig) THEN [neg |-> neg, m |-> TwoTo(MantDig - 1), e |-> e + 1]
            ELSE [neg |-> neg, m |-> m, e |-> e]
        \* q with a half bit h and whether more is left below it: to nearest, ties
        \* to even
        FloatRound(neg, q, h, more, e) ==
            IF h = 1 /\ (more = 1 \/ q[Len(q)] % 2 = 1)
            THEN FloatNormal(neg, NatAdd(q, <<1>>), e)
            ELSE FloatNormal(neg, q, e)
        \* q2 is the quotient with one bit more than the mantissa
        FloatHalves(neg, halves, more, e) ==
            FloatRound(neg, halves[1], halves[2], more, e)
        FloatQuotient(neg, qr, e) ==
            Bind(NatDivMod(qr[1], 2), LAMBDA halves : FloatHalves(neg, halves, qr[2], e))
        \* n / 100 with the exponent e: n / (100 * 2^(e - 1)) has MantDig + 1 bits
        FloatScaled(neg, n, e) ==
            Bind(IF e >= 1 THEN NatDivModLong(n, TwoTo(e - 1) \o <<0, 0>>)
                 ELSE NatDivModLong(NatMul(n, TwoTo(1 - e)), <<1, 0, 0>>),
                 LAMBDA qr : FloatQuotient(neg, qr, e))
    IN  IF IsSpecial(o) THEN [nan |-> TRUE]
        ELSE IF IsZero(o) THEN [neg |-> o.sign, zero |-> TRUE]
        ELSE Bind(Log2Cents(o.int) - (MantDig - 1),
                  LAMBDA e : FloatScaled(o.sign, o.int, e))

\* the last digit: k, or k + 1 when that is nearer (a tie goes to the even)
LastDigit(k, rem, s, low, high) ==
    IF low /\ ~high THEN k
    ELSE IF high /\ ~low THEN k + 1
    ELSE IF NatCmp(NatAdd(rem, rem), s) < 0 THEN k
    ELSE IF NatCmp(NatAdd(rem, rem), s) = 0 /\ k % 2 = 0 THEN k
    ELSE k + 1

\* the digits from r on, mults the multiples of s; the digits end when what
\* is left is inside the gap below or the gap above
RECURSIVE ShortestDigits(_, _, _, _, _)
ShortestDigits(r, mults, mp, mm, even) ==
    LET r10  == StripZeros(r \o <<0>>)
        mp10 == mp \o <<0>>
        mm10 == mm \o <<0>>
        k    == QuotDigit(mults, r10)
        rem  == NatSub(r10, mults[k + 1])
        low  == IF even THEN NatCmp(rem, mm10) <= 0 ELSE NatCmp(rem, mm10) < 0
        high == IF even THEN NatCmp(NatAdd(rem, mp10), mults[2]) >= 0
                ELSE NatCmp(NatAdd(rem, mp10), mults[2]) > 0
    IN  IF ~low /\ ~high
        THEN <<k>> \o ShortestDigits(rem, mults, mp10, mm10, even)
        ELSE <<LastDigit(k, rem, mults[2], low, high)>>

\* json's text of a float: NaN, or repr(float)
FloatRepr(x) ==
    LET \* repr(float): the shortest digits that round to the float, and of these
        \* the nearest to it.  The float m * 2^e is r / s, the half gaps to the
        \* floats above and below it are mp / s and mm / s; below 2^52 * 2^e the
        \* gap is half as wide.  All are taken times 100 here, which makes the
        \* decimal point's place at least 1.
        Gaps(m, a, b, sh) ==
            [r  |-> NatMul(m, TwoTo(a + sh)) \o <<0, 0>>,
             s  |-> TwoTo(b + sh),
             mp |-> TwoTo(a + sh - 1) \o <<0, 0>>,
             mm |-> TwoTo(a) \o <<0, 0>>,
             even |-> m[Len(m)] % 2 = 0]
        Boundaries(m, e) ==
            Gaps(m, Max(e, 0), Max(-e, 0), IF m = TwoTo(MantDig - 1) THEN 2 ELSE 1)
        \* the number of digits before the point of the float's upper bound
        PointPlaces(high, s, even) ==
            Cardinality({j \in 0..(Prec + 1) :
                            IF even THEN NatCmp(high, s \o Zeros(j)) >= 0
                            ELSE NatCmp(high, s \o Zeros(j)) > 0})
        PointPlace(high, s, even) ==
            Bind(high, LAMBDA upper : PointPlaces(upper, s, even))
        \* the digits and the place of the decimal point before them
        ShortestAt(g, place) ==
            Bind(Multiples(g.s \o Zeros(place)), LAMBDA mults :
                [digits |-> ShortestDigits(g.r, mults, g.mp, g.mm, g.even),
                 decpt  |-> place - 2])
        Shortest(g) ==
            Bind(PointPlace(NatAdd(g.r, g.mp), g.s, g.even),
                 LAMBDA place : ShortestAt(g, place))
        \* the exponent of repr: sign and at least two digits
        ExponentStr(ex) ==
            (IF ex < 0 THEN <<"e", "-">> ELSE <<"e", "+">>)
            \o (IF ex < 10 /\ ex > -10 THEN <<"0">> ELSE <<>>)
            \o IntStr(IF ex < 0 THEN -ex ELSE ex)
        \* float_repr_style 'short': an exponent when the point's place is above 16
        \* or below -3, else the digits with the point and at least one digit after
        ReprDigits(ds, decpt) ==
            IF decpt > 16 \/ decpt <= -4
            THEN <<ds[1]>> \o (IF Len(ds) > 1 THEN <<".">> \o Tail(ds) ELSE <<>>)
                 \o ExponentStr(decpt - 1)
            ELSE IF decpt <= 0
            THEN <<"0", ".">> \o DigitsStr(Zeros(-decpt)) \o ds
            ELSE IF Len(ds) <= decpt
            THEN ds \o DigitsStr(Zeros(decpt - Len(ds))) \o <<".", "0">>
            ELSE SubSeq(ds, 1, decpt) \o <<".">> \o SubSeq(ds, decpt + 1, Len(ds))
        ReprShortest(sh) ==
            Bind(DigitsStr(sh.digits), LAMBDA ds : ReprDigits(ds, sh.decpt))
    IN  IF "nan" \in DOMAIN x THEN <<"N", "a", "N">>
        ELSE (IF x.neg = 1 THEN <<"-">> ELSE <<>>)
             \o (IF "zero" \in DOMAIN x THEN <<"0", ".", "0">>
                 ELSE Bind(Boundaries(x.m, x.e),
                           LAMBDA g : ReprShortest(Shortest(g))))

\* def enc(o): a field's text, null for None
enc(o) == IF IsNone(o) THEN PyStr(<<"n", "u", "l", "l">>)
          ELSE Bind(float(o), LAMBDA x : PyStr(FloatRepr(x)))

\* one line of the object with indent=2: the key, the value and a comma
\* after all but the last
JsonItem(key, value, last) ==
    <<Lit("  \""), Lit(key), Lit("\": "), enc(value)>>
    \o (IF last THEN <<>> ELSE <<Lit(",")>>)

\* the lines of json.dumps(asdict(results), ...), the fields in the order of
\* the dataclass
json_dumps(result) ==
    << <<Lit("{")>>,
       JsonItem("steuer_status_quo", result.steuer_status_quo, FALSE),
       JsonItem("schwelle_40_prozent", result.schwelle_40_prozent, FALSE),
       JsonItem("steuer_beim_schwellenwert", result.steuer_beim_schwellenwert, FALSE),
       JsonItem("ersparnis_pro_jahr_schwelle", result.ersparnis_pro_jahr_schwelle, FALSE),
       JsonItem("ersparnis_gesamt_schwelle", result.ersparnis_gesamt_schwelle, FALSE),
       JsonItem("steuer_beim_custom", result.steuer_beim_custom, FALSE),
       JsonItem("ersparnis_pro_jahr_custom", result.ersparnis_pro_jahr_custom, FALSE),
       JsonItem("ersparnis_gesamt_custom", result.ersparnis_gesamt_custom, TRUE),
       <<Lit("}")>> >>

\* main(): the Inputs, the Results and the lines printed, those of
\* json.dumps with --json and those of print_table without; an exception
\* that is raised on the way ends the run
main_state(parsed, computed, table) ==
    [inputs  |-> IF IsRaised(parsed) THEN PyNone ELSE parsed,
     results |-> IF IsRaised(computed) THEN PyNone ELSE computed,
     out     |-> PrintedLines(table),
     exc     |-> UncaughtLine(table)]

main_print(parsed, computed, json) ==
    main_state(parsed, computed,
               IF IsRaised(computed) THEN << <<computed>> >>
               ELSE IF json THEN json_dumps(computed)
               ELSE print_table(parsed, computed))

main_berechne(parsed, json) ==
    main_print(parsed, IF IsRaised(parsed) THEN parsed ELSE berechne(parsed),
               json)

main(gsw, mess, heb, years, custom, json) ==
    main_berechne(main_inputs(gsw, mess, heb, years, custom), json)

\* a run of the script with the form f submitted: the values computed and
\* the metrics shown before an exception ends the run
app_state(computed, shown) ==
    [calc |-> IF IsRaised(computed) THEN PyNone
              ELSE [k \in DOMAIN computed \ {"mess", "heb"} |-> computed[k]],
     out  |-> Printed(shown),
     exc  |-> Uncaught(shown)]

\* the custom block, reached with the first five metrics shown
app_custom_block(f, base, shown, custom) ==
    IF IsRaised(custom) THEN app_state(base, shown \o <<custom>>)
    ELSE app_state(custom, shown \o app_custom_metrics(f, custom))

app_show(f, base, shown) ==
    IF FirstRaised(shown) = 0 /\ app_custom_shown(f)
    THEN app_custom_block(f, base, shown, app_custom(f, base))
    ELSE app_state(base, shown)

app_compute(f, base) ==
    IF IsRaised(base) THEN app_state(base, <<base>>)
    ELSE app_show(f, base, app_metrics(base))

app_run(f) == app_compute(f, app_script(f))

------------------------------------------------------------------------------
\* Bounds of the inputs

\* the command line's --gsw runs over ScenarioGsw .. ScenarioGsw + MaxStep
\* whole euros and over 0 .. MaxMilli thousandths of a euro
MaxStep == 3
MaxMilli == 21
\* --years and the form's years run over 1 .. MaxYears
MaxYears == 4
\* the form's gsw runs over 0 .. MaxFormEuro whole euros
MaxFormEuro == 2
\* eur and quant2 are applied to values of 1 .. MaxIntDigits integer digits
MaxIntDigits == 7

\* the documented example: --gsw 1031600 --mess 0.31 --heb 470 --years 4
ScenarioGsw == 1031600
ScenarioCustom == 600000

\* k * 10^-n written with n digits after the point
FixedStr(k, n) ==
    LET a == NatDigits(k)
        p == IF Len(a) <= n THEN Zeros(n + 1 - Len(a)) \o a ELSE a
    IN  DigitsStr(SubSeq(p, 1, Len(p) - n)) \o <<".">>
        \o DigitsStr(SubSeq(p, Len(p) - n + 1, Len(p)))

\* the arguments of a run: <<--gsw, --mess, --heb, --custom, --json>>.
\* ExtremeGsw: a --gsw that is no number, and assessed values at the end of
\* the 28 digits: 1E+26 (its eur text needs 29 digits), 1E+27 (its threshold
\* needs 29), a value of 29 digits whose threshold is 1E+24 + 0.004857.. and
\* the like value of 27 digits whose threshold is 1E+22 + 0.004857..
\* The runs with --json take the default --mess and --heb, and as --gsw the
\* documented example, 0.007 and 1E+26, as --custom none or the documented
\* example.
MainArgs ==
    LET ExtremeGsw ==
            {<<>>,
             <<"1", "E", "+", "2", "6">>,
             <<"1", "E", "+", "2", "7">>,
             <<"1", "4">> \o DigitsStr(Zeros(23)) \o <<".", "0", "0", "6", "8">>,
             <<"1", "4">> \o DigitsStr(Zeros(21)) \o <<".", "0", "0", "6", "8">>}
        GswArgs ==
            {IntStr(ScenarioGsw + i) : i \in 0..MaxStep}
            \cup {FixedStr(k, 3) : k \in 0..MaxMilli}
            \cup ExtremeGsw
        MessArgs == {<<"0", ".", "3", "1">>, <<"0">>, <<"5", "0", "0">>}
        HebArgs == {<<"4", "7", "0">>, <<"0">>, <<"1", "0", "0">>}
        CustomArgs ==
            {PyNone, PyStr(<<"0">>), PyStr(IntStr(ScenarioCustom)),
             PyStr(<<"7", "3", "6", "8", "5", "7", ".", "1", "4">>),
             PyStr(<<"1", "E", "+", "3", "0">>)}
        JsonGswArgs ==
            {IntStr(ScenarioGsw), FixedStr(7, 3), <<"1", "E", "+", "2", "6">>}
        JsonCustomArgs == {PyNone, PyStr(IntStr(ScenarioCustom))}
    IN  {<<gsw, mess, heb, custom, FALSE>> :
            gsw \in GswArgs, mess \in MessArgs, heb \in HebArgs,
            custom \in CustomArgs}
        \cup {<<gsw, <<"0", ".", "3", "1">>, <<"4", "7", "0">>, custom, TRUE>> :
                gsw \in JsonGswArgs, custom \in JsonCustomArgs}

\* the Inputs of a call of berechne: the documented example and the values
\* next to it, 0, 0.007 and 1E+27 as assessed value, no custom value, 0, the
\* documented one and 1E+30
CallInputs ==
    LET CallGsw ==
            {Dec(0, NatDigits(ScenarioGsw + i), 0) : i \in 0..MaxStep}
            \cup {Dec(0, <<0>>, 0), Dec(0, <<7>>, -3), Dec(0, <<1>>, 27)}
        CallCustom ==
            {PyNone, Dec(0, <<0>>, 0), Dec(0, NatDigits(ScenarioCustom), 0),
             Dec(0, <<1>>, 30)}
    IN  {Inputs(gsw, Dec(0, <<3, 1>>, -2), Dec(0, <<4, 7, 0>>, 0), years, custom) :
            gsw \in CallGsw, years \in 1..MaxYears, custom \in CallCustom}

FormGsw == (0..MaxFormEuro) \cup {ScenarioGsw + i : i \in 0..MaxStep}

FormMess == {0, 31}

FormHeb == {0, 47000}

FormCustom == {0, ScenarioCustom}

\* the arguments of eur and quant2. IntParts: magnitudes of n integer
\* digits, 1, 12, 123, ... and 9, 99, 999, ... ExtremeValues: values that are
\* no number, and values at the end of the 28 digits: 26 nines before the
\* point round to 28 digits with .994 and to 29 with .995;
\* 100000000000000000000000000.00 has 2 decimals and 29 digits
Values ==
    LET IntParts ==
            {SubSeq(<<"1", "2", "3", "4", "5", "6", "7", "8", "9">>, 1, n) :
                n \in 1..MaxIntDigits}
            \cup {[i \in 1..n |-> "9"] : n \in 1..MaxIntDigits}
            \cup {<<"0">>}
        FracParts ==
            {<<>>, <<".", "4", "5">>, <<".", "0", "0">>, <<".", "0", "0", "5">>,
             <<".", "3", "4", "5">>, <<".", "3", "4", "4">>, <<".", "9", "9", "5">>,
             <<".", "0", "0", "4">>}
        ExtremeValues ==
            {<<"N", "a", "N">>, <<"s", "N", "a", "N">>,
             <<"-", "I", "n", "f", "i", "n", "i", "t", "y">>,
             <<"1", "E", "+", "2", "6">>,
             [i \in 1..26 |-> "9"] \o <<".", "9", "9", "4">>,
             [i \in 1..26 |-> "9"] \o <<".", "9", "9", "5">>,
             <<"-">> \o [i \in 1..26 |-> "9"] \o <<".", "9", "9">>,
             <<"1">> \o DigitsStr(Zeros(26)) \o <<".", "0", "0">>}
    IN  {sg \o ip \o fp : sg \in {<<>>, <<"-">>}, ip \in IntParts, fp \in FracParts}
        \cup ExtremeValues

------------------------------------------------------------------------------
\* A run of the command line, a call of berechne, a submit of the form, a
\* call of eur or of quant2: each starts from a fresh process (pc = "idle")
\* and ends with its inputs and outputs in the state, exc the exception that
\* ended it or None.

VARIABLES pc, inputs, results, form, calc, arg, rounded, out, exc

vars == <<pc, inputs, results, form, calc, arg, rounded, out, exc>>

Init ==
    /\ pc = "idle"
    /\ inputs = PyNone
    /\ results = PyNone
    /\ form = PyNone
    /\ calc = PyNone
    /\ arg = PyNone
    /\ rounded = PyNone
    /\ out = <<>>
    /\ exc = PyNone

\* main(): parse the arguments, berechne, print the JSON or the table
Main ==
    /\ pc = "idle"
    /\ \E a \in MainArgs, years \in 1..MaxYears :
        \E run \in {main(PyStr(a[1]), PyStr(a[2]), PyStr(a[3]), years, a[4],
                          a[5])} :
            /\ pc' = "main"
            /\ inputs' = run.inputs
            /\ results' = run.results
            /\ out' = run.out
            /\ exc' = run.exc
            /\ form' = PyNone
            /\ calc' = PyNone
            /\ arg' = PyNone
            /\ rounded' = PyNone

\* berechne(inputs), called with an Inputs of Decimals
Berechne ==
    /\ pc = "idle"
    /\ \E inp \in CallInputs :
        \E res \in {berechne(inp)} :
            /\ pc' = "berechne"
            /\ inputs' = inp
            /\ results' = IF IsRaised(res) THEN PyNone ELSE res
            /\ exc' = IF IsRaised(res) THEN res ELSE PyNone
            /\ out' = <<>>
            /\ form' = PyNone
            /\ calc' = PyNone
            /\ arg' = PyNone
            /\ rounded' = PyNone

\* the form's "Berechnen" button: the script runs with submitted = True
Submit ==
    /\ pc = "idle"
    /\ \E gsw \in FormGsw, years \in 1..MaxYears, mess \in FormMess,
       heb \in FormHeb, use_custom \in BOOLEAN, custom_v \in FormCustom :
        \E f \in {Form(PyInt(gsw), PyInt(years), PyFloat(mess), PyFloat(heb),
                       use_custom,
                       IF use_custom THEN PyInt(custom_v) ELSE PyNone)} :
        \E run \in {app_run(f)} :
            /\ pc' = "form"
            /\ form' = f
            /\ calc' = run.calc
            /\ out' = run.out
            /\ exc' = run.exc
            /\ inputs' = PyNone
            /\ results' = PyNone
            /\ arg' = PyNone
            /\ rounded' = PyNone

\* quant2(x)
Quant2 ==
    /\ pc = "idle"
    /\ \E v \in Values :
        \E x \in {d(PyStr(v))} :
        \E xq \in {quant2(x)} :
            /\ pc' = "quant2"
            /\ arg' = x
            /\ rounded' = IF IsRaised(xq) THEN PyNone ELSE xq
            /\ exc' = IF IsRaised(xq) THEN xq ELSE PyNone
            /\ out' = <<>>
            /\ inputs' = PyNone
            /\ results' = PyNone
            /\ form' = PyNone
            /\ calc' = PyNone

\* eur(x)
Eur ==
    /\ pc = "idle"
    /\ \E v \in Values :
        \E x \in {d(PyStr(v))} :
        \E xq \in {quant2(x)} :
        \E text \in {eur(x)} :
            /\ pc' = "eur"
            /\ arg' = x
            /\ rounded' = IF IsRaised(xq) THEN PyNone ELSE xq
            /\ out' = Printed(<<text>>)
            /\ exc' = Uncaught(<<text>>)
            /\ inputs' = PyNone
            /\ results' = PyNone
            /\ form' = PyNone
            /\ calc' = PyNone

Next == Main \/ Berechne \/ Submit \/ Quant2 \/ Eur

Spec == Init /\ [][Next]_vars

------------------------------------------------------------------------------
\* Reading the state

\* berechne was called, by main or directly, with the Inputs inputs
Called == pc \in {"main", "berechne"} /\ ~IsNone(inputs)

\* and returned the Results results
Returned == Called /\ ~IsNone(results)

IsCents(x) == IsFinite(x) /\ x.exp = -2

\* a Decimal of exponent -2 and at most 9 digits as a number of cents
Cents(x) == IF x.sign = 1 THEN -NatVal(x.int) ELSE NatVal(x.int)

\* an integer of any size: its sign and the digits of its magnitude
Signed(neg, mag) == [neg |-> neg /\ mag # <<0>>, mag |-> mag]

\* a Decimal of exponent -2 as its integer number of cents
SCents(x) == Signed(x.sign = 1, x.int)

SAdd(a, b) ==
    IF a.neg = b.neg THEN Signed(a.neg, NatAdd(a.mag, b.mag))
    ELSE IF NatCmp(a.mag, b.mag) >= 0 THEN Signed(a.neg, NatSub(a.mag, b.mag))
    ELSE Signed(b.neg, NatSub(b.mag, a.mag))

SNeg(a) == Signed(~a.neg, a.mag)

SSub(a, b) == SAdd(a, SNeg(b))

\* a times the natural number n
STimes(a, n) == Signed(a.neg, NatMul(a.mag, NatDigits(n)))

\* the five fields every Results has
Fixed(r) ==
    <<r.steuer_status_quo, r.schwelle_40_prozent, r.steuer_beim_schwellenwert,
      r.ersparnis_pro_jahr_schwelle, r.ersparnis_gesamt_schwelle>>

\* the three fields of the custom scenario
Custom(r) ==
    <<r.steuer_beim_custom, r.ersparnis_pro_jahr_custom, r.ersparnis_gesamt_custom>>

HasCustom(inp) == ~IsNone(inp.custom_verkehrswert)

\* assessed_value 1031600, rate_per_mille 0.31, municipal_rate_percent 470,
\* remaining_years 4, no custom value
ScenarioA ==
    /\ Returned
    /\ inputs.grundsteuerwert = Dec(0, NatDigits(ScenarioGsw), 0)
    /\ inputs.messzahl_permille = Dec(0, <<3, 1>>, -2)
    /\ inputs.hebesatz_prozent = Dec(0, <<4, 7, 0>>, 0)
    /\ inputs.years = 4
    /\ ~HasCustom(inputs)

------------------------------------------------------------------------------
\* C1 (as stated): scenario A returns tax_current = 1503.08, threshold_value
\* = 736857.14, tax_at_threshold = round2(736857.14 * 0.00031 * 4.70) = 1073.60
\* and savings_total_at_threshold = 4 * (tax_current - tax_at_threshold).
C1_Original ==
    ScenarioA =>
        /\ Cents(results.steuer_status_quo) = 150308
        /\ Cents(results.schwelle_40_prozent) = 73685714
        /\ Cents(results.steuer_beim_schwellenwert) = 107360
        /\ Cents(results.ersparnis_gesamt_schwelle)
              = 4 * (Cents(results.steuer_status_quo)
                     - Cents(results.steuer_beim_schwellenwert))

\* C1 (amended): scenario A returns tax_current = 1503.04 (1031600 * 0.00031
\* * 4.70 = 1503.0412), threshold_value = 736857.14, tax_at_threshold =
\* 1073.60 and savings_total_at_threshold = 4 * (1503.04 - 1073.60) = 1717.76.
C1_ScenarioA ==
    ScenarioA =>
        /\ Cents(results.steuer_status_quo) = 150304
        /\ Cents(results.schwelle_40_prozent) = 73685714
        /\ Cents(results.steuer_beim_schwellenwert) = 107360
        /\ Cents(results.ersparnis_gesamt_schwelle)
              = 4 * (Cents(results.steuer_status_quo)
                     - Cents(results.steuer_beim_schwellenwert))
        /\ Cents(results.ersparnis_gesamt_schwelle) = 171776

C1_Witness == ScenarioA /\ Cents(results.ersparnis_pro_jahr_schwelle) = 42944

\* the digits of c * 10^e in units of 10^m, for m <= e
Scaled(c, e, m) == StripZeros(c \o Zeros(e - m))

\* t cents is av / 1.4 rounded half up to cents: t/100 - 0.005 <= av / 1.4
\* < t/100 + 0.005, that is 14 t - 7 <= 1000 av < 14 t + 7, compared in
\* units of 10^Min(e + 3, 0) for av = int * 10^e
HalfUpOf14(av, t) ==
    /\ NatCmp(NatAdd(Scaled(av.int, av.exp + 3, Min(av.exp + 3, 0)),
                     Scaled(<<7>>, 0, Min(av.exp + 3, 0))),
              Scaled(NatMul(t.int, <<1, 4>>), 0, Min(av.exp + 3, 0))) >= 0
    /\ NatCmp(Scaled(av.int, av.exp + 3, Min(av.exp + 3, 0)),
              NatAdd(Scaled(NatMul(t.int, <<1, 4>>), 0, Min(av.exp + 3, 0)),
                     Scaled(<<7>>, 0, Min(av.exp + 3, 0)))) < 0

\* t cents <= av, for non-negative av
AtMost(t, av) ==
    NatCmp(Scaled(t.int, -2, Min(av.exp, -2)),
           Scaled(av.int, av.exp, Min(av.exp, -2))) <= 0

\* C2: for every non-negative assessed_value, of any number of fractional
\* digits, berechne returns threshold_value = assessed_value / 1.4 rounded
\* half up to cents, and threshold_value <= assessed_value.
C2_Original ==
    (Called /\ IsFinite(inputs.grundsteuerwert)
     /\ inputs.grundsteuerwert.sign = 0) =>
        /\ ~IsNone(results)
        /\ IsCents(results.schwelle_40_prozent)
        /\ HalfUpOf14(inputs.grundsteuerwert, results.schwelle_40_prozent)
        /\ AtMost(results.schwelle_40_prozent, inputs.grundsteuerwert)

\* the integer digits ds with a "." before every group of three from the right
RECURSIVE Grouped(_)
Grouped(ds) ==
    IF Len(ds) <= 3 THEN ds
    ELSE Grouped(SubSeq(ds, 1, Len(ds) - 3)) \o <<".">>
         \o SubSeq(ds, Len(ds) - 2, Len(ds))

\* the digits of the cents x before and after the decimal point
IntDigits(x) ==
    IF Len(x.int) <= 2 THEN <<"0">>
    ELSE DigitsStr(SubSeq(x.int, 1, Len(x.int) - 2))

FracDigits(x) == DigitsStr(SubSeq(PadLeft(x.int, 2), Len(PadLeft(x.int, 2)) - 1,
                                  Len(PadLeft(x.int, 2))))

\* eur(arg) returned a text for the number arg
EurReturned == pc = "eur" /\ IsFinite(arg) /\ IsNone(exc)

\* C3: eur groups the integer digits in threes from the right with ".", and
\* puts the "-" of a negative value directly before the grouped magnitude.
C3_Grouping ==
    EurReturned =>
        out[1].chars = (IF rounded.sign = 1 THEN <<"-">> ELSE <<>>)
                       \o Grouped(IntDigits(rounded)) \o <<",">>
                       \o FracDigits(rounded) \o <<" ", "€">>

\* "," made a point in the text without its thousands separators
CommaToPoint(text) == [i \in 1..Len(text) |-> IF text[i] = "," THEN "." ELSE text[i]]

\* the numeric portion of a formatted amount, thousands separators removed
\* and the decimal comma made a point, parsed as a decimal
ParseBack(text) ==
    ParseDecimal(CommaToPoint(SelectSeq(SubSeq(text, 1, Len(text) - 2),
                                        LAMBDA c : c # ".")))

\* C4: for every value already rounded to 2 decimals, parsing the numeric
\* portion of its eur text back, the thousands separators removed and the
\* comma made a point, gives the value.
C4_RoundTrip ==
    (pc = "eur" /\ IsFinite(arg) /\ arg.exp = -2) =>
        /\ IsNone(exc)
        /\ ParseBack(out[1].chars) = arg

\* C5: in a Results that berechne returns the custom fields are present
\* exactly when custom_value was supplied, None when it was left out; a
\* supplied 0 gives tax_at_custom = 0 and savings_per_year_custom =
\* tax_current.
C5_CustomPresence ==
    Returned =>
        /\ \A i \in 1..3 : IsNone(Custom(results)[i]) <=> ~HasCustom(inputs)
        /\ (HasCustom(inputs) /\ IsZero(inputs.custom_verkehrswert)) =>
              /\ IsZero(results.steuer_beim_custom)
              /\ results.ersparnis_pro_jahr_custom = results.steuer_status_quo

\* a supplied 0 with a current tax that is not 0
C5_Witness ==
    /\ Returned
    /\ HasCustom(inputs)
    /\ IsZero(inputs.custom_verkehrswert)
    /\ ~IsZero(results.steuer_status_quo)
    /\ ~IsNone(results.ersparnis_gesamt_custom)

\* custom_value equals the threshold value
CustomIsThreshold ==
    /\ HasCustom(inputs)
    /\ inputs.custom_verkehrswert = results.schwelle_40_prozent

\* C6: for all inputs for which berechne returns a Results with custom_value
\* left out, it returns one with custom_value supplied, whatever its value,
\* with the same five non-custom fields, and the custom fields follow the
\* threshold's formula with custom_value in the threshold's place.
C6_Frame ==
    (Called /\ ~IsRaised(berechne([inputs EXCEPT !.custom_verkehrswert = PyNone]))) =>
        /\ ~IsNone(results)
        /\ Fixed(results)
              = Fixed(berechne([inputs EXCEPT !.custom_verkehrswert = PyNone]))
        /\ HasCustom(inputs) =>
              /\ SCents(results.ersparnis_pro_jahr_custom)
                    = SSub(SCents(results.steuer_status_quo),
                           SCents(results.steuer_beim_custom))
              /\ SCents(results.ersparnis_gesamt_custom)
                    = STimes(SCents(results.ersparnis_pro_jahr_custom), inputs.years)
        /\ CustomIsThreshold =>
              Custom(results) = <<results.steuer_beim_schwellenwert,
                                  results.ersparnis_pro_jahr_schwelle,
                                  results.ersparnis_gesamt_schwelle>>

\* the savings per year when the unrounded taxes are subtracted, then rounded
SubtractThenRound(inp, r) ==
    quant2(DecSub(DecMul(DecMul(d(inp.grundsteuerwert),
                                permille(d(inp.messzahl_permille))),
                         prozent(d(inp.hebesatz_prozent))),
                  DecMul(DecMul(r.schwelle_40_prozent,
                                permille(d(inp.messzahl_permille))),
                         prozent(d(inp.hebesatz_prozent)))))

\* C7: in a Results that berechne returns savings_per_year_at_threshold is
\* the rounded tax_current minus the rounded tax_at_threshold, and
\* savings_total_at_threshold is that times remaining_years.
C7_RoundThenSubtract ==
    Returned =>
        /\ IsCents(results.steuer_status_quo)
        /\ IsCents(results.steuer_beim_schwellenwert)
        /\ IsCents(results.ersparnis_pro_jahr_schwelle)
        /\ IsCents(results.ersparnis_gesamt_schwelle)
        /\ SCents(results.ersparnis_pro_jahr_schwelle)
              = SSub(SCents(results.steuer_status_quo),
                     SCents(results.steuer_beim_schwellenwert))
        /\ SCents(results.ersparnis_gesamt_schwelle)
              = STimes(SCents(results.ersparnis_pro_jahr_schwelle), inputs.years)

\* assessed value 1031603 at the default rates: 1503.05 - 1073.60 = 429.45,
\* where 1503.0455.. - 1073.6008.. = 429.4446.. rounds to 429.44
C7_Witness ==
    /\ Returned
    /\ inputs.grundsteuerwert = Dec(0, NatDigits(ScenarioGsw + 3), 0)
    /\ Cents(results.steuer_status_quo) = 150305
    /\ Cents(results.steuer_beim_schwellenwert) = 107360
    /\ Cents(results.ersparnis_pro_jahr_schwelle) = 42945
    /\ Cents(SubtractThenRound(inputs, results)) = 42944
    /\ Cents(results.ersparnis_gesamt_schwelle) = 42945 * inputs.years

\* the digits a with the last k digits rounded away, half up
HalfUp(a, k) ==
    IF PadLeft(a, k + 1)[Len(PadLeft(a, k + 1)) - k + 1] >= 5
    THEN NatAdd(SubSeq(PadLeft(a, k + 1), 1, Len(PadLeft(a, k + 1)) - k), <<1>>)
    ELSE StripZeros(SubSeq(PadLeft(a, k + 1), 1, Len(PadLeft(a, k + 1)) - k))

\* the digits of the cents of a number of thousandths, rounded half up
HalfUpCents(thousandths) == HalfUp(thousandths, 1)

\* C8: quant2 rounds a value with a third decimal to 2 decimals half up: a
\* third decimal of 5 or more moves the cents away from zero, less than 5
\* toward zero, for either sign; 12.345 -> 12.35, 0.005 -> 0.01, -12.345 ->
\* -12.35.
C8_HalfUp ==
    (pc = "quant2" /\ IsFinite(arg) /\ arg.exp = -3) =>
        /\ IsNone(exc)
        /\ IsCents(rounded)
        /\ rounded.sign = arg.sign
        /\ rounded.int = HalfUpCents(arg.int)
        /\ arg = Dec(0, <<1, 2, 3, 4, 5>>, -3) => Cents(rounded) = 1235
        /\ arg = Dec(0, <<5>>, -3) => Cents(rounded) = 1
        /\ arg = Dec(1, <<1, 2, 3, 4, 5>>, -3) => Cents(rounded) = -1235
        /\ arg = Dec(0, <<1, 2, 3, 4, 4>>, -3) => Cents(rounded) = 1234

\* C9 (as stated): with assessed_value 0 berechne returns a Results, whatever
\* the rates, the years and the custom_value, and every monetary field
\* present in it is 0.
C9_Original ==
    (Called /\ IsZero(inputs.grundsteuerwert)) =>
        /\ ~IsNone(results)
        /\ \A i \in 1..5 : IsZero(Fixed(results)[i])
        /\ HasCustom(inputs) => \A i \in 1..3 : IsZero(Custom(results)[i])

\* the digits of the cents of the finite x, rounded half up
RoundedCents(x) ==
    IF x.exp >= -2 THEN StripZeros(x.int \o Zeros(x.exp + 2))
    ELSE HalfUp(x.int, -2 - x.exp)

\* the tax at custom_value before it is rounded
CustomTax(inp) ==
    DecMul(DecMul(inp.custom_verkehrswert, permille(inp.messzahl_permille)),
           prozent(inp.hebesatz_prozent))

\* the cents of the tax at custom_value times remaining_years need more
\* than Prec digits
CustomTooLarge(inp) ==
    Len(NatMul(RoundedCents(CustomTax(inp)), NatDigits(inp.years))) > Prec

\* C9 (amended): with assessed_value 0 berechne raises InvalidOperation when
\* a custom_value is supplied whose tax times remaining_years needs more than
\* 28 digits in cents, and returns a Results otherwise; its five non-custom
\* fields are 0, and the custom fields, when present, are the tax at
\* custom_value and its negation as savings, per year and times
\* remaining_years.
C9_ZeroAssessed ==
    (Called /\ IsZero(inputs.grundsteuerwert)) =>
        IF HasCustom(inputs) /\ CustomTooLarge(inputs)
        THEN IsNone(results) /\ exc = InvalidOperation
        ELSE /\ ~IsNone(results)
             /\ \A i \in 1..5 : IsZero(Fixed(results)[i])
             /\ HasCustom(inputs) =>
                   /\ results.steuer_beim_custom.int = RoundedCents(CustomTax(inputs))
                   /\ SCents(results.ersparnis_pro_jahr_custom)
                         = SNeg(SCents(results.steuer_beim_custom))
                   /\ SCents(results.ersparnis_gesamt_custom)
                         = SNeg(STimes(SCents(results.steuer_beim_custom), inputs.years))

\* assessed value 0 and a custom value whose tax is not 0
C9_Witness ==
    /\ Returned
    /\ IsZero(inputs.grundsteuerwert)
    /\ HasCustom(inputs)
    /\ ~IsZero(results.steuer_beim_custom)
    /\ results.steuer_beim_custom.sign = 0
    /\ results.ersparnis_pro_jahr_custom.sign = 1
    /\ IsZero(results.steuer_status_quo)

\* the Inputs the command line builds from the values of the form
FormInputs(f) ==
    Inputs(d(f.gsw), d(f.mess_permille), d(f.heb_prozent), f.years.n,
           IF f.use_custom THEN d(f.custom_v) ELSE PyNone)

\* the form's values against a Results
SameAsCore(c, r) ==
    /\ <<c.steuer_now, c.vmax, c.steuer_vmax, c.ersparnis_vmax_jahr,
         c.ersparnis_vmax_gesamt>> = Fixed(r)
    /\ IsNone(c.steuer_custom) <=> IsNone(r.steuer_beim_custom)
    /\ IsNone(c.ersparnis_custom_jahr) <=> IsNone(r.ersparnis_pro_jahr_custom)
    /\ IsNone(c.ersparnis_custom_gesamt) <=> IsNone(r.ersparnis_gesamt_custom)
    /\ ~IsNone(c.steuer_custom) =>
          <<c.steuer_custom, c.ersparnis_custom_jahr, c.ersparnis_custom_gesamt>>
              = Custom(r)

\* C10: for every input the form can submit, the script computes values, and
\* they are the fields berechne returns; the form computes the custom
\* scenario exactly when berechne populates the custom fields.
C10_FormMatchesCore ==
    pc = "form" =>
        /\ ~IsNone(calc)
        /\ SameAsCore(calc, berechne(FormInputs(form)))

====
